---------------------------- MODULE Spec2Model ----------------------------
(***************************************************************************)
(* Model of ModelInferenceService (app/services/model_inference_service.py)*)
(* of ORO-backend: the model registry scan, the folder-name classifier,    *)
(* the family loaders, the loaded-model cache, the YOLO and MMRotate       *)
(* executors and the predict orchestrator.                                 *)
(*                                                                         *)
(* Conventions                                                             *)
(*  - a folder name is a sequence of one-character strings;                *)
(*  - scores and confidence thresholds are integers in hundredths;         *)
(*  - coordinates are integers in half units (value * 2), so that w/2 and  *)
(*    h/2 are exact; angles are whole degrees, multiples of 90;            *)
(*  - the cache (a Python dict, insertion ordered) is a sequence of        *)
(*    entries [key, val];                                                  *)
(*  - a call result is a record [ret, raised]: raised = "none" when the    *)
(*    call returned, otherwise the name of the exception that escaped.     *)
(***************************************************************************)
EXTENDS Integers, Sequences, FiniteSets, TLC

VARIABLES
    store,          \* the model store on disk (models_dir)
    loaded_models,  \* self.loaded_models
    last,           \* the last call made on the service, with its outcome
    thr,            \* threads of the concurrent runs
    cls,            \* classifier runs: folder name and result
    mm,             \* MMRotate executor runs: backend rows and output
    yl              \* YOLO executor runs: backend results and output

vars == <<store, loaded_models, last, thr, cls, mm, yl>>

(***************************************************************************)
(* Bounds                                                                  *)
(***************************************************************************)
MaxFolders == 2
MaxFrags == 3
MaxRows == 2
MaxBoxes == 2

ModelIds == {1, 2}
None == [kind |-> "None"]

(***************************************************************************)
(* Strings: str.lower, `in`, str.startswith                                *)
(***************************************************************************)
UpperToLower ==
    [A |-> "a", B |-> "b", L |-> "l", M |-> "m", O |-> "o", Y |-> "y",
     R |-> "r", V |-> "v", X |-> "x"]

LowerChar(c) == IF c \in DOMAIN UpperToLower THEN UpperToLower[c] ELSE c

Lower(s) == [i \in 1..Len(s) |-> LowerChar(s[i])]

Contains(s, sub) ==
    \E i \in 1..(Len(s) - Len(sub) + 1) : SubSeq(s, i, i + Len(sub) - 1) = sub

StartsWith(s, p) == Len(s) >= Len(p) /\ SubSeq(s, 1, Len(p)) = p

S_yolo == <<"y", "o", "l", "o">>
S_obb == <<"o", "b", "b">>
S_mm == <<"m", "m", "-">>

(***************************************************************************)
(* _determine_model_type                                                   *)
(***************************************************************************)
DetermineMmFirst(folder_name) ==
    LET folder_lower == Lower(folder_name) IN
    IF StartsWith(folder_lower, S_mm) THEN "mmrotate"
    ELSE IF Contains(folder_lower, S_yolo)
         THEN IF Contains(folder_lower, S_obb) THEN "yolo-obb" ELSE "yolo"
         ELSE "unknown"

determine_model_type(folder_name) ==
    LET folder_lower == Lower(folder_name) IN
    IF Contains(folder_lower, S_yolo)
    THEN IF Contains(folder_lower, S_obb) THEN "yolo-obb" ELSE "yolo"
    ELSE IF StartsWith(folder_lower, S_mm) THEN "mmrotate" ELSE "unknown"

(***************************************************************************)
(* The model store: models_dir, one entry per directory entry, in          *)
(* iterdir() order.  desc is the content of metadata.json:                 *)
(*   absent    no metadata.json                                            *)
(*   object    a JSON object (id = 0: no "id" key)                         *)
(*   badjson   not JSON: json.load raises JSONDecodeError                  *)
(*   ioerror   cannot be opened or read: IOError                           *)
(*   nonobject valid JSON that is not an object (a list, null, a number):  *)
(*             json.load returns it and metadata.get raises AttributeError *)
(***************************************************************************)
Folder(name, is_dir, kind, id, mname, ckpt, config) ==
    [name |-> name, is_dir |-> is_dir,
     desc |-> [kind |-> kind, id |-> id, name |-> mname],
     ckpt |-> ckpt, config |-> config]

N_YOLOv8 == <<"Y", "O", "L", "O", "v", "8">>
N_yolo_obb == <<"y", "o", "l", "o", "-", "o", "b", "b">>
N_mm_rcnn == <<"m", "m", "-", "r">>
N_resnet == <<"r", "e", "s">>
N_bad == <<"b", "a", "d">>
N_locked == <<"l", "k">>
N_list == <<"l", "s">>
N_notes == <<"n", "t">>

Catalog ==
    { Folder(N_YOLOv8, TRUE, "object", 1, "YOLOv8n-COCO", TRUE, FALSE),
      Folder(N_YOLOv8, TRUE, "object", 1, "YOLOv8n-COCO", FALSE, FALSE),
      Folder(N_yolo_obb, TRUE, "object", 2, "YOLO11-OBB", TRUE, FALSE),
      Folder(N_mm_rcnn, TRUE, "object", 2, "Oriented-RCNN", TRUE, TRUE),
      Folder(N_mm_rcnn, TRUE, "object", 1, "Oriented-RCNN", TRUE, FALSE),
      Folder(N_resnet, TRUE, "object", 1, "ResNet", TRUE, FALSE),
      Folder(N_bad, TRUE, "badjson", 0, "", TRUE, FALSE),
      Folder(N_locked, TRUE, "ioerror", 0, "", TRUE, FALSE),
      Folder(N_list, TRUE, "nonobject", 0, "", TRUE, FALSE),
      Folder(N_notes, FALSE, "absent", 0, "", FALSE, FALSE) }

UniqueNames(fs) == \A i, j \in 1..Len(fs) : fs[i].name = fs[j].name => i = j

Stores ==
    { [exists |-> FALSE, folders |-> <<>>] } \cup
    { [exists |-> TRUE, folders |-> fs] :
        fs \in { f \in UNION { [1..n -> Catalog] : n \in 0..MaxFolders } :
                   UniqueNames(f) } }

PathExists(st, name, what) ==
    \E i \in 1..Len(st.folders) :
        /\ st.folders[i].name = name
        /\ st.folders[i].is_dir
        /\ IF what = "file.pt" THEN st.folders[i].ckpt ELSE st.folders[i].config

(***************************************************************************)
(* _get_model_metadata: [kind |-> "found", metadata], [kind |-> "none"] or *)
(* [kind |-> "raise", exc]                                                 *)
(***************************************************************************)
RECURSIVE Scan(_, _, _)
Scan(st, model_id, i) ==
    IF i > Len(st.folders) THEN [kind |-> "none"]
    ELSE LET f == st.folders[i] IN
         IF ~f.is_dir \/ f.desc.kind = "absent" THEN Scan(st, model_id, i + 1)
         ELSE IF f.desc.kind \in {"badjson", "ioerror"} THEN Scan(st, model_id, i + 1)
         ELSE IF f.desc.kind = "nonobject"
              THEN [kind |-> "raise", exc |-> "AttributeError"]
         ELSE IF f.desc.id = model_id
              THEN [kind |-> "found",
                    metadata |-> [id |-> f.desc.id, name |-> f.desc.name,
                                  folder |-> f.name,
                                  checkpoint_path |-> f.name]]
         ELSE Scan(st, model_id, i + 1)

get_model_metadata(st, model_id) ==
    IF ~st.exists THEN [kind |-> "none"] ELSE Scan(st, model_id, 1)


(***************************************************************************)
(* The cache: dict operations on self.loaded_models                        *)
(***************************************************************************)
DictHas(d, k) == \E i \in 1..Len(d) : d[i].key = k

DictGetFirst(d, k) == d[1].val

DictGet(d, k) == d[CHOOSE i \in 1..Len(d) : d[i].key = k].val

DictSetAppend(d, k, v) == Append(d, [key |-> k, val |-> v])

DictSet(d, k, v) ==
    IF DictHas(d, k)
    THEN [i \in 1..Len(d) |-> IF d[i].key = k THEN [key |-> k, val |-> v] ELSE d[i]]
    ELSE Append(d, [key |-> k, val |-> v])

DictDelFirst(d, k) == IF Len(d) = 0 THEN d ELSE Tail(d)

DictDel(d, k) == SelectSeq(d, LAMBDA e : e.key # k)

DictKeys(d) == [i \in 1..Len(d) |-> d[i].key]

(* number of entries of the cache under key k *)
Count(d, k) == Cardinality({i \in 1..Len(d) : d[i].key = k})

(***************************************************************************)
(* Family loaders.  env is what the environment does to a load:            *)
(*   fault   none, ImportError (backend not installed), CorruptCheckpoint  *)
(*           or DeviceError (the backend's constructor raises)             *)
(*   cuda    torch.cuda.is_available()                                     *)
(*   classes the CLASSES attribute of the mmdet model built (has = FALSE:  *)
(*           the model has no such attribute)                              *)
(* obj tags the object the loader builds.                                  *)
(***************************************************************************)
NoClasses == [has |-> FALSE, names |-> <<>>]

LoaderEnv(fault, cu, classes) == [fault |-> fault, cuda |-> cu, classes |-> classes]

OkEnv == LoaderEnv("none", FALSE, NoClasses)

LoaderEnvs ==
    { OkEnv,
      LoaderEnv("none", TRUE, [has |-> TRUE, names |-> <<"plane">>]),
      LoaderEnv("ImportError", FALSE, NoClasses),
      LoaderEnv("CorruptCheckpoint", FALSE, NoClasses),
      LoaderEnv("DeviceError", TRUE, NoClasses) }

load_yolo_model(checkpoint_path, env, obj) ==
    IF env.fault # "none" THEN [raised |-> env.fault]
    ELSE [raised |-> "none",
          model |-> [backend |-> "ultralytics", checkpoint |-> checkpoint_path,
                     obj |-> obj]]

LoadMmrotateNoConfigCheck(st, checkpoint_path, env, obj) ==
    IF env.fault # "none" THEN [raised |-> env.fault]
    ELSE [raised |-> "none",
          model |-> [backend |-> "mmdet", checkpoint |-> checkpoint_path,
                     device |-> IF env.cuda THEN "cuda:0" ELSE "cpu",
                     CLASSES |-> env.classes, obj |-> obj]]

load_mmrotate_model(st, checkpoint_path, env, obj) ==
    IF env.fault = "ImportError" THEN [raised |-> "ImportError"]
    ELSE IF ~PathExists(st, checkpoint_path, "config.py")
         THEN [raised |-> "FileNotFoundError"]
    ELSE IF env.fault # "none" THEN [raised |-> env.fault]
    ELSE [raised |-> "none",
          model |-> [backend |-> "mmdet", checkpoint |-> checkpoint_path,
                     device |-> IF env.cuda THEN "cuda:0" ELSE "cpu",
                     CLASSES |-> env.classes, obj |-> obj]]

(***************************************************************************)
(* load_model, lines 149-185 without the cache write: what the call does   *)
(* after the `already loaded' check has failed.                            *)
(*   [kind |-> "return", ret |-> FALSE], [kind |-> "raise", exc] or        *)
(*   [kind |-> "entry", val] (the entry lines 166/174 are about to write)  *)
(* loader_calls counts the family loader's invocations.                    *)
(***************************************************************************)
LoadPrepareUnknownAsYolo(st, model_id, env, obj) ==
    LET md == get_model_metadata(st, model_id) IN
    IF md.kind = "raise" THEN [kind |-> "raise", exc |-> md.exc, loader_calls |-> 0]
    ELSE IF md.kind = "none" THEN [kind |-> "return", ret |-> FALSE, loader_calls |-> 0]
    ELSE LET metadata == md.metadata IN
         IF ~PathExists(st, metadata.checkpoint_path, "file.pt")
         THEN [kind |-> "return", ret |-> FALSE, loader_calls |-> 0]
         ELSE LET model_type == determine_model_type(metadata.folder)
                  ld == IF model_type \in {"yolo", "yolo-obb", "unknown"}
                        THEN load_yolo_model(metadata.checkpoint_path, env, obj)
                        ELSE load_mmrotate_model(st, metadata.checkpoint_path, env, obj)
              IN IF model_type \notin {"yolo", "yolo-obb", "mmrotate", "unknown"}
                 THEN [kind |-> "return", ret |-> FALSE, loader_calls |-> 0]
                 ELSE IF ld.raised # "none"
                      THEN [kind |-> "return", ret |-> FALSE, loader_calls |-> 1]
                      ELSE [kind |-> "entry", loader_calls |-> 1,
                            val |-> [model |-> ld.model, type |-> model_type,
                                     metadata |-> metadata]]

LoadPrepare(st, model_id, env, obj) ==
    LET md == get_model_metadata(st, model_id) IN
    IF md.kind = "raise" THEN [kind |-> "raise", exc |-> md.exc, loader_calls |-> 0]
    ELSE IF md.kind = "none" THEN [kind |-> "return", ret |-> FALSE, loader_calls |-> 0]
    ELSE LET metadata == md.metadata IN
         IF ~PathExists(st, metadata.checkpoint_path, "file.pt")
         THEN [kind |-> "return", ret |-> FALSE, loader_calls |-> 0]
         ELSE LET model_type == determine_model_type(metadata.folder)
                  ld == IF model_type \in {"yolo", "yolo-obb"}
                        THEN load_yolo_model(metadata.checkpoint_path, env, obj)
                        ELSE load_mmrotate_model(st, metadata.checkpoint_path, env, obj)
              IN IF model_type \notin {"yolo", "yolo-obb", "mmrotate"}
                 THEN [kind |-> "return", ret |-> FALSE, loader_calls |-> 0]
                 ELSE IF ld.raised # "none"
                      THEN [kind |-> "return", ret |-> FALSE, loader_calls |-> 1]
                      ELSE [kind |-> "entry", loader_calls |-> 1,
                            val |-> [model |-> ld.model, type |-> model_type,
                                     metadata |-> metadata]]

(***************************************************************************)
(* load_model: [ret, raised, cache, loader_calls]                          *)
(***************************************************************************)
LoadFinish(cache, model_id, p) ==
    IF p.kind = "entry"
    THEN [ret |-> TRUE, raised |-> "none", loader_calls |-> p.loader_calls,
          cache |-> DictSet(cache, model_id, p.val)]
    ELSE IF p.kind = "raise"
         THEN [ret |-> FALSE, raised |-> p.exc, loader_calls |-> p.loader_calls,
               cache |-> cache]
         ELSE [ret |-> p.ret, raised |-> "none", loader_calls |-> p.loader_calls,
               cache |-> cache]

LoadModelNoCheck(cache, st, model_id, env, obj) ==
    LoadFinish(cache, model_id, LoadPrepare(st, model_id, env, obj))

LoadModelReverify(cache, st, model_id, env, obj) ==
    IF /\ DictHas(cache, model_id)
       /\ PathExists(st, DictGet(cache, model_id).metadata.checkpoint_path, "file.pt")
    THEN [ret |-> TRUE, raised |-> "none", loader_calls |-> 0, cache |-> cache]
    ELSE LoadFinish(cache, model_id, LoadPrepare(st, model_id, env, obj))

load_model(cache, st, model_id, env, obj) ==
    IF DictHas(cache, model_id)
    THEN [ret |-> TRUE, raised |-> "none", loader_calls |-> 0, cache |-> cache]
    ELSE LoadFinish(cache, model_id, LoadPrepare(st, model_id, env, obj))

(***************************************************************************)
(* unload_model, unload_all_models, get_loaded_models                      *)
(***************************************************************************)
unload_model(cache, model_id) ==
    IF DictHas(cache, model_id)
    THEN [ret |-> TRUE, cache |-> DictDel(cache, model_id)]
    ELSE [ret |-> FALSE, cache |-> cache]

UnloadAllButLast(cache) == IF Len(cache) = 0 THEN cache ELSE <<cache[Len(cache)]>>

unload_all_models(cache) == <<>>

get_loaded_models(cache) == DictKeys(cache)

(***************************************************************************)
(* _yolo_inference.  results is what model.predict returned: a sequence of *)
(* result objects [boxes, obb, names]; boxes and obb are Nothing (None) or *)
(* Some(sequence); a box is [xyxy, xywh, cls, conf] (xyxy, xywh: Nothing   *)
(* when the attribute is missing, else Some(coordinates)); an obb entry is *)
(* [xyxyxyxy] (Nothing or Some(corners)); names maps class ids to names.   *)
(* Returns [raised, detections]; when it raises, detections is the local   *)
(* list at that point, which the caller never sees.                        *)
(***************************************************************************)
Nothing == [has |-> FALSE, v |-> <<>>]

Some(v) == [has |-> TRUE, v |-> v]

YoloBoxXyxyOnly(result, idx) ==
    LET box == result.boxes.v[idx]
        has_coords == box.xyxy.has
        coords == IF box.xyxy.has THEN box.xyxy.v ELSE box.xywh.v
        bbox_type == IF box.xyxy.has THEN "xyxy" ELSE "xywh"
        has_obb == result.obb.has
        obb_coords == IF has_obb THEN result.obb.v[idx].xyxyxyxy ELSE Nothing
        base == [class_id |-> box.cls, class_name |-> result.names[box.cls],
                 confidence |-> box.conf, bbox |-> coords, bbox_type |-> bbox_type]
    IN IF ~has_coords THEN [kind |-> "skip"]
       ELSE IF has_obb /\ idx > Len(result.obb.v)
            THEN [kind |-> "raise", exc |-> "IndexError"]
       ELSE IF box.cls \notin DOMAIN result.names
            THEN [kind |-> "raise", exc |-> "KeyError"]
       ELSE IF obb_coords.has /\ obb_coords.v # <<>>
            THEN [kind |-> "det",
                  det |-> [class_id |-> base.class_id, class_name |-> base.class_name,
                           confidence |-> base.confidence, bbox |-> base.bbox,
                           bbox_type |-> "obb", obb |-> obb_coords.v]]
            ELSE [kind |-> "det", det |-> base]

YoloBoxKeepsType(result, idx) ==
    LET box == result.boxes.v[idx]
        has_coords == box.xyxy.has \/ box.xywh.has
        coords == IF box.xyxy.has THEN box.xyxy.v ELSE box.xywh.v
        bbox_type == IF box.xyxy.has THEN "xyxy" ELSE "xywh"
        has_obb == result.obb.has
        obb_coords == IF has_obb THEN result.obb.v[idx].xyxyxyxy ELSE Nothing
        base == [class_id |-> box.cls, class_name |-> result.names[box.cls],
                 confidence |-> box.conf, bbox |-> coords, bbox_type |-> bbox_type]
    IN IF ~has_coords THEN [kind |-> "skip"]
       ELSE IF has_obb /\ idx > Len(result.obb.v)
            THEN [kind |-> "raise", exc |-> "IndexError"]
       ELSE IF box.cls \notin DOMAIN result.names
            THEN [kind |-> "raise", exc |-> "KeyError"]
       ELSE IF obb_coords.has /\ obb_coords.v # <<>>
            THEN [kind |-> "det",
                  det |-> [class_id |-> base.class_id, class_name |-> base.class_name,
                           confidence |-> base.confidence, bbox |-> base.bbox,
                           bbox_type |-> base.bbox_type, obb |-> obb_coords.v]]
            ELSE [kind |-> "det", det |-> base]

YoloBox(result, idx) ==
    LET box == result.boxes.v[idx]
        has_coords == box.xyxy.has \/ box.xywh.has
        coords == IF box.xyxy.has THEN box.xyxy.v ELSE box.xywh.v
        bbox_type == IF box.xyxy.has THEN "xyxy" ELSE "xywh"
        has_obb == result.obb.has
        obb_coords == IF has_obb THEN result.obb.v[idx].xyxyxyxy ELSE Nothing
        base == [class_id |-> box.cls, class_name |-> result.names[box.cls],
                 confidence |-> box.conf, bbox |-> coords, bbox_type |-> bbox_type]
    IN IF ~has_coords THEN [kind |-> "skip"]
       ELSE IF has_obb /\ idx > Len(result.obb.v)
            THEN [kind |-> "raise", exc |-> "IndexError"]
       ELSE IF box.cls \notin DOMAIN result.names
            THEN [kind |-> "raise", exc |-> "KeyError"]
       ELSE IF obb_coords.has /\ obb_coords.v # <<>>
            THEN [kind |-> "det",
                  det |-> [class_id |-> base.class_id, class_name |-> base.class_name,
                           confidence |-> base.confidence, bbox |-> base.bbox,
                           bbox_type |-> "obb", obb |-> obb_coords.v]]
            ELSE [kind |-> "det", det |-> base]

RECURSIVE YoloBoxes(_, _, _)
YoloBoxes(result, idx, acc) ==
    IF ~result.boxes.has \/ idx > Len(result.boxes.v)
    THEN [raised |-> "none", detections |-> acc]
    ELSE LET b == YoloBox(result, idx) IN
         IF b.kind = "raise" THEN [raised |-> b.exc, detections |-> acc]
         ELSE IF b.kind = "skip" THEN YoloBoxes(result, idx + 1, acc)
         ELSE YoloBoxes(result, idx + 1, Append(acc, b.det))

RECURSIVE YoloResults(_, _, _)
YoloResults(results, r, acc) ==
    IF r > Len(results) THEN [raised |-> "none", detections |-> acc]
    ELSE LET one == YoloBoxes(results[r], 1, acc) IN
         IF one.raised # "none" THEN one
         ELSE YoloResults(results, r + 1, one.detections)

yolo_inference(backend) ==
    IF backend.raises # "none" THEN [raised |-> backend.raises, detections |-> <<>>]
    ELSE YoloResults(backend.yolo, 1, <<>>)

(***************************************************************************)
(* _mmrotate_inference.  Numbers: scores in hundredths, coordinates in     *)
(* half units, angles in degrees (multiples of 90, where cos and sin are   *)
(* -1, 0 or 1).                                                            *)
(***************************************************************************)
Mod360(a) == a % 360

CosDeg(a) == CASE Mod360(a) = 0 -> 1 [] Mod360(a) = 90 -> 0
               [] Mod360(a) = 180 -> -1 [] Mod360(a) = 270 -> 0

SinDeg(a) == CASE Mod360(a) = 0 -> 0 [] Mod360(a) = 90 -> 1
               [] Mod360(a) = 180 -> 0 [] Mod360(a) = 270 -> -1

Half(v) == v \div 2

CornerSignsFromBottom == << <<-1, 1>>, <<1, 1>>, <<1, -1>>, <<-1, -1>> >>

CornerSigns == << <<-1, -1>>, <<1, -1>>, <<1, 1>>, <<-1, 1>> >>

(* lines 326-340: the corners of the box with top-left (x, y) *)
Corners(x, y, w, h, angle) ==
    LET cx == x + Half(w)
        cy == y + Half(h)
        cos_a == CosDeg(angle)
        sin_a == SinDeg(angle)
        dx == Half(w)
        dy == Half(h)
        px(s) == cx + s[1] * dx * cos_a - s[2] * dy * sin_a
        py(s) == cy + s[1] * dx * sin_a + s[2] * dy * cos_a
    IN << px(CornerSigns[1]), py(CornerSigns[1]),
          px(CornerSigns[2]), py(CornerSigns[2]),
          px(CornerSigns[3]), py(CornerSigns[3]),
          px(CornerSigns[4]), py(CornerSigns[4]) >>

(* line 309: the row is dropped *)
BelowInclusive(score, confidence) == score <= confidence

Below(score, confidence) == score < confidence

(* lines 283-306: the geometry of a row, or None for a row that is skipped *)
RowGeometryCorners(detection) ==
    IF Len(detection) < 5 THEN None
    ELSE IF Len(detection) = 6
         THEN [x |-> detection[1] - Half(detection[3]),
               y |-> detection[2] - Half(detection[4]),
               w |-> detection[3], h |-> detection[4],
               angle |-> detection[5], has_angle |-> TRUE,
               score |-> detection[6]]
    ELSE IF Len(detection) = 5
         THEN [x |-> detection[1], y |-> detection[2],
               w |-> detection[3], h |-> detection[4],
               angle |-> 0, has_angle |-> FALSE, score |-> detection[5]]
    ELSE None

RowGeometryScoreFromAngle(detection) ==
    IF Len(detection) < 5 THEN None
    ELSE IF Len(detection) = 6
         THEN [x |-> detection[1] - Half(detection[3]),
               y |-> detection[2] - Half(detection[4]),
               w |-> detection[3], h |-> detection[4],
               angle |-> detection[5], has_angle |-> TRUE,
               score |-> detection[5]]
    ELSE IF Len(detection) = 5
         THEN [x |-> detection[1], y |-> detection[2],
               w |-> detection[3] - detection[1],
               h |-> detection[4] - detection[2],
               angle |-> 0, has_angle |-> FALSE, score |-> detection[5]]
    ELSE None

RowGeometry(detection) ==
    IF Len(detection) < 5 THEN None
    ELSE IF Len(detection) = 6
         THEN [x |-> detection[1] - Half(detection[3]),
               y |-> detection[2] - Half(detection[4]),
               w |-> detection[3], h |-> detection[4],
               angle |-> detection[5], has_angle |-> TRUE,
               score |-> detection[6]]
    ELSE IF Len(detection) = 5
         THEN [x |-> detection[1], y |-> detection[2],
               w |-> detection[3] - detection[1],
               h |-> detection[4] - detection[2],
               angle |-> 0, has_angle |-> FALSE, score |-> detection[5]]
    ELSE None

(* lines 313-342: the detection of a retained row *)
MMDetObbType(model, class_id, g) ==
    LET class_name == IF model.CLASSES.has THEN model.CLASSES.names[class_id + 1]
                      ELSE ToString(class_id)
    IN IF g.has_angle
       THEN [class_id |-> class_id, class_name |-> class_name,
             confidence |-> g.score, bbox |-> <<g.x, g.y, g.w, g.h>>,
             bbox_type |-> "obb", angle |-> g.angle,
             obb |-> Corners(g.x, g.y, g.w, g.h, g.angle)]
       ELSE [class_id |-> class_id, class_name |-> class_name,
             confidence |-> g.score, bbox |-> <<g.x, g.y, g.w, g.h>>,
             bbox_type |-> "xywh"]

MMDetAngleAlways(model, class_id, g) ==
    LET class_name == IF model.CLASSES.has THEN model.CLASSES.names[class_id + 1]
                      ELSE ToString(class_id)
    IN IF g.has_angle
       THEN [class_id |-> class_id, class_name |-> class_name,
             confidence |-> g.score, bbox |-> <<g.x, g.y, g.w, g.h>>,
             bbox_type |-> "xywha", angle |-> g.angle,
             obb |-> Corners(g.x, g.y, g.w, g.h, g.angle)]
       ELSE [class_id |-> class_id, class_name |-> class_name,
             confidence |-> g.score, bbox |-> <<g.x, g.y, g.w, g.h>>,
             bbox_type |-> "xywh", angle |-> g.angle]

MMDet(model, class_id, g) ==
    LET class_name == IF model.CLASSES.has THEN model.CLASSES.names[class_id + 1]
                      ELSE ToString(class_id)
    IN IF g.has_angle
       THEN [class_id |-> class_id, class_name |-> class_name,
             confidence |-> g.score, bbox |-> <<g.x, g.y, g.w, g.h>>,
             bbox_type |-> "xywha", angle |-> g.angle,
             obb |-> Corners(g.x, g.y, g.w, g.h, g.angle)]
       ELSE [class_id |-> class_id, class_name |-> class_name,
             confidence |-> g.score, bbox |-> <<g.x, g.y, g.w, g.h>>,
             bbox_type |-> "xywh"]

(* CLASSES of an mmdet model: has = FALSE when the model has no such attribute *)
(* the loops of lines 279-344, from row d of class c (both 1-based) on *)
RECURSIVE MMLoop(_, _, _, _, _, _)
MMLoop(model, bbox_result, confidence, c, d, acc) ==
    IF c > Len(bbox_result) THEN [raised |-> "none", detections |-> acc]
    ELSE IF d > Len(bbox_result[c])
         THEN MMLoop(model, bbox_result, confidence, c + 1, 1, acc)
    ELSE LET g == RowGeometry(bbox_result[c][d])
             class_id == c - 1
         IN IF g = None \/ Below(g.score, confidence)
            THEN MMLoop(model, bbox_result, confidence, c, d + 1, acc)
            ELSE IF model.CLASSES.has /\ class_id + 1 > Len(model.CLASSES.names)
                 THEN [raised |-> "IndexError", detections |-> acc]
                 ELSE MMLoop(model, bbox_result, confidence, c, d + 1,
                             Append(acc, MMDet(model, class_id, g)))

(* backend.mm is what inference_detector returned: [tuple, value], value *)
(* being the per-class arrays, or the tuple (per-class arrays, masks)    *)
mmrotate_inference(model, backend, confidence) ==
    LET result == backend.mm
        bbox_result == IF result.tuple THEN result.value[1] ELSE result.value
    IN IF backend.raises # "none"
       THEN [raised |-> backend.raises, detections |-> <<>>]
       ELSE MMLoop(model, bbox_result, confidence, 1, 1, <<>>)

(***************************************************************************)
(* predict.  image is the state of the file at image_path:                 *)
(*   missing (os.path.exists is false), corrupt (unreadable, zero-byte or  *)
(*   not an image: Image.open raises), ok.  backend is what the family backend does on this call:   *)
(*   [raises, yolo, mm].                                                   *)
(***************************************************************************)
Images == {"missing", "corrupt", "ok"}

Failure(msg) == [success |-> FALSE, error |-> msg]

ImageSize(image) == <<640, 480>>

(* lines 390-405: the failure the image checks return, or None *)
ImageCheckExistsOnly(image) ==
    IF image = "missing" THEN Failure("Image not found") ELSE None

ImageCheck(image) ==
    IF image = "missing" THEN Failure("Image not found")
    ELSE IF image = "corrupt" THEN Failure("Failed to read image")
    ELSE None

(* lines 407-441: [result, raised, executor_calls, computed]; computed is   *)
(* the length of the executor's list when it returned or raised            *)
PredictRunKeepsPartial(cache, model_id, image, confidence, backend) ==
    IF ~DictHas(cache, model_id)
    THEN [result |-> None, raised |-> "KeyError", executor_calls |-> 0,
          computed |-> 0]
    ELSE LET model_info == DictGet(cache, model_id)
             model_type == model_info.type
             run == IF model_type \in {"yolo", "yolo-obb"}
                    THEN yolo_inference(backend)
                    ELSE mmrotate_inference(model_info.model, backend, confidence)
         IN IF model_type \notin {"yolo", "yolo-obb", "mmrotate"}
            THEN [result |-> Failure("Unsupported model type"), raised |-> "none",
                  executor_calls |-> 0, computed |-> 0]
            ELSE IF run.raised # "none"
                 THEN [result |-> [success |-> FALSE, error |-> "Inference failed",
                                   detections |-> run.detections,
                                   detection_count |-> Len(run.detections)],
                       raised |-> "none",
                       executor_calls |-> 1, computed |-> Len(run.detections)]
                 ELSE [result |-> [success |-> TRUE, model_id |-> model_id,
                                   model_name |-> model_info.metadata.name,
                                   model_type |-> model_type,
                                   image_path |-> image,
                                   image_size |-> ImageSize(image),
                                   detections |-> run.detections,
                                   detection_count |-> Len(run.detections),
                                   confidence_threshold |-> confidence],
                       raised |-> "none", executor_calls |-> 1,
                       computed |-> Len(run.detections)]

PredictRun(cache, model_id, image, confidence, backend) ==
    IF ~DictHas(cache, model_id)
    THEN [result |-> None, raised |-> "KeyError", executor_calls |-> 0,
          computed |-> 0]
    ELSE LET model_info == DictGet(cache, model_id)
             model_type == model_info.type
             run == IF model_type \in {"yolo", "yolo-obb"}
                    THEN yolo_inference(backend)
                    ELSE mmrotate_inference(model_info.model, backend, confidence)
         IN IF model_type \notin {"yolo", "yolo-obb", "mmrotate"}
            THEN [result |-> Failure("Unsupported model type"), raised |-> "none",
                  executor_calls |-> 0, computed |-> 0]
            ELSE IF run.raised # "none"
                 THEN [result |-> Failure("Inference failed"), raised |-> "none",
                       executor_calls |-> 1, computed |-> Len(run.detections)]
                 ELSE [result |-> [success |-> TRUE, model_id |-> model_id,
                                   model_name |-> model_info.metadata.name,
                                   model_type |-> model_type,
                                   image_path |-> image,
                                   image_size |-> ImageSize(image),
                                   detections |-> run.detections,
                                   detection_count |-> Len(run.detections),
                                   confidence_threshold |-> confidence],
                       raised |-> "none", executor_calls |-> 1,
                       computed |-> Len(run.detections)]

(* lines 390-441 *)
PredictTail(cache, model_id, image, confidence, backend) ==
    IF ImageCheck(image) # None
    THEN [result |-> ImageCheck(image), raised |-> "none", executor_calls |-> 0,
          computed |-> 0]
    ELSE PredictRun(cache, model_id, image, confidence, backend)

(* lines 376-388: [ret, raised, loader_calls, cache, load_calls]; ret is    *)
(* FALSE when predict returns its failure here, load_calls counts the      *)
(* calls of load_model                                                     *)
PredictLoadAlways(cache, st, model_id, auto_load, env, obj) ==
    IF DictHas(cache, model_id)
    THEN [ret |-> TRUE, raised |-> "none", loader_calls |-> 0, cache |-> cache,
          load_calls |-> 0]
    ELSE LET loaded == load_model(cache, st, model_id, env, obj) IN
         [ret |-> loaded.ret, raised |-> loaded.raised,
          loader_calls |-> loaded.loader_calls, cache |-> loaded.cache,
          load_calls |-> 1]

PredictLoadNoCheck(cache, st, model_id, auto_load, env, obj) ==
    IF auto_load
    THEN LET loaded == LoadModelNoCheck(cache, st, model_id, env, obj) IN
         [ret |-> loaded.ret, raised |-> loaded.raised,
          loader_calls |-> loaded.loader_calls, cache |-> loaded.cache,
          load_calls |-> 1]
    ELSE [ret |-> DictHas(cache, model_id), raised |-> "none", loader_calls |-> 0,
          cache |-> cache, load_calls |-> 0]

PredictLoad(cache, st, model_id, auto_load, env, obj) ==
    IF DictHas(cache, model_id)
    THEN [ret |-> TRUE, raised |-> "none", loader_calls |-> 0, cache |-> cache,
          load_calls |-> 0]
    ELSE IF auto_load
         THEN LET loaded == load_model(cache, st, model_id, env, obj) IN
              [ret |-> loaded.ret, raised |-> loaded.raised,
               loader_calls |-> loaded.loader_calls, cache |-> loaded.cache,
               load_calls |-> 1]
         ELSE [ret |-> FALSE, raised |-> "none", loader_calls |-> 0,
               cache |-> cache, load_calls |-> 0]

(* predict: [result, raised, cache, loader_calls, executor_calls,          *)
(* load_calls, image_checks, computed]; image_checks counts the runs of    *)
(* the image checks of lines 390-405                                       *)
PredictThroughLoadFailure(cache, st, model_id, image, confidence, auto_load, env, backend, obj) ==
    LET ld == PredictLoad(cache, st, model_id, auto_load, env, obj)
        t == PredictTail(ld.cache, model_id, image, confidence, backend)
    IN IF ld.raised # "none"
       THEN [result |-> None, raised |-> ld.raised, cache |-> ld.cache,
             loader_calls |-> ld.loader_calls, executor_calls |-> 0,
             load_calls |-> ld.load_calls, image_checks |-> 0, computed |-> 0]
       ELSE IF ~ld.ret /\ ImageCheck(image) = None
            THEN [result |-> IF auto_load THEN Failure("Failed to load model")
                             ELSE Failure("Model not loaded"),
                  raised |-> "none", cache |-> ld.cache,
                  loader_calls |-> ld.loader_calls, executor_calls |-> 0,
                  load_calls |-> ld.load_calls, image_checks |-> 1,
                  computed |-> 0]
            ELSE [result |-> t.result, raised |-> t.raised, cache |-> ld.cache,
                  loader_calls |-> ld.loader_calls,
                  executor_calls |-> t.executor_calls,
                  load_calls |-> ld.load_calls, image_checks |-> 1,
                  computed |-> t.computed]

PredictImageFirst(cache, st, model_id, image, confidence, auto_load, env, backend, obj) ==
    LET ld == PredictLoad(cache, st, model_id, auto_load, env, obj)
        t == PredictTail(ld.cache, model_id, image, confidence, backend)
    IN IF ImageCheck(image) # None
       THEN [result |-> ImageCheck(image), raised |-> "none", cache |-> cache,
             loader_calls |-> 0, executor_calls |-> 0, load_calls |-> 0,
             image_checks |-> 1, computed |-> 0]
       ELSE IF ld.raised # "none"
       THEN [result |-> None, raised |-> ld.raised, cache |-> ld.cache,
             loader_calls |-> ld.loader_calls, executor_calls |-> 0,
             load_calls |-> ld.load_calls, image_checks |-> 1, computed |-> 0]
       ELSE IF ~ld.ret
            THEN [result |-> IF auto_load THEN Failure("Failed to load model")
                             ELSE Failure("Model not loaded"),
                  raised |-> "none", cache |-> ld.cache,
                  loader_calls |-> ld.loader_calls, executor_calls |-> 0,
                  load_calls |-> ld.load_calls, image_checks |-> 1,
                  computed |-> 0]
            ELSE [result |-> t.result, raised |-> t.raised, cache |-> ld.cache,
                  loader_calls |-> ld.loader_calls,
                  executor_calls |-> t.executor_calls,
                  load_calls |-> ld.load_calls, image_checks |-> 1,
                  computed |-> t.computed]

predict(cache, st, model_id, image, confidence, auto_load, env, backend, obj) ==
    LET ld == PredictLoad(cache, st, model_id, auto_load, env, obj)
        t == PredictTail(ld.cache, model_id, image, confidence, backend)
    IN IF ld.raised # "none"
       THEN [result |-> None, raised |-> ld.raised, cache |-> ld.cache,
             loader_calls |-> ld.loader_calls, executor_calls |-> 0,
             load_calls |-> ld.load_calls, image_checks |-> 0, computed |-> 0]
       ELSE IF ~ld.ret
            THEN [result |-> IF auto_load THEN Failure("Failed to load model")
                             ELSE Failure("Model not loaded"),
                  raised |-> "none", cache |-> ld.cache,
                  loader_calls |-> ld.loader_calls, executor_calls |-> 0,
                  load_calls |-> ld.load_calls, image_checks |-> 0,
                  computed |-> 0]
            ELSE [result |-> t.result, raised |-> t.raised, cache |-> ld.cache,
                  loader_calls |-> ld.loader_calls,
                  executor_calls |-> t.executor_calls,
                  load_calls |-> ld.load_calls, image_checks |-> 1,
                  computed |-> t.computed]

(***************************************************************************)
(* Backend outcomes of the service runs                                    *)
(***************************************************************************)
DefaultConfidence == 25

Confidences == {DefaultConfidence, 50}

YoloNames == (0 :> "person") @@ (1 :> "car")

YoloSome ==
    << [boxes |-> Some(<< [xyxy |-> Some(<<0, 0, 20, 20>>), xywh |-> Some(<<10, 10, 20, 20>>),
                      cls |-> 0, conf |-> 90],
                     [xyxy |-> Some(<<4, 4, 8, 8>>), xywh |-> Some(<<6, 6, 4, 4>>),
                      cls |-> 1, conf |-> 50] >>),
        obb |-> Nothing, names |-> YoloNames] >>

(* a box that exposes only xywh, then one that exposes neither xyxy nor xywh *)
YoloOdd ==
    << [boxes |-> Some(<< [xyxy |-> Nothing, xywh |-> Some(<<10, 10, 20, 20>>),
                      cls |-> 0, conf |-> 90],
                     [xyxy |-> Nothing, xywh |-> Nothing, cls |-> 1, conf |-> 50] >>),
        obb |-> Nothing, names |-> YoloNames] >>

(* a box of a known class, then one whose class is not in result.names *)
YoloPartial ==
    << [boxes |-> Some(<< [xyxy |-> Some(<<0, 0, 20, 20>>), xywh |-> Some(<<10, 10, 20, 20>>),
                      cls |-> 0, conf |-> 90],
                     [xyxy |-> Some(<<4, 4, 8, 8>>), xywh |-> Some(<<6, 6, 4, 4>>),
                      cls |-> 2, conf |-> 50] >>),
        obb |-> Nothing, names |-> YoloNames] >>

MMSome ==
    [tuple |-> TRUE,
     value |-> << << << <<20, 20, 8, 4, 90, 90>>, <<0, 0, 8, 8, 49>> >> >>, <<>> >>]

(* rows of two classes *)
MMTwo ==
    [tuple |-> FALSE,
     value |-> << << <<20, 20, 8, 4, 90, 90>> >>, << <<2, 4, 10, 8, 90>> >> >>]

Backends ==
    { [raises |-> "RuntimeError", yolo |-> <<>>, mm |-> [tuple |-> FALSE, value |-> <<>>]],
      [raises |-> "none", yolo |-> <<>>, mm |-> [tuple |-> FALSE, value |-> <<>>]],
      [raises |-> "none", yolo |-> YoloSome, mm |-> MMSome],
      [raises |-> "none", yolo |-> YoloOdd, mm |-> MMTwo],
      [raises |-> "none", yolo |-> YoloPartial, mm |-> MMTwo] }

(***************************************************************************)
(* The service, one call at a time.  The environment's part in a call (the *)
(* loader's env, the backend's outcome) is drawn only when the call        *)
(* reaches the loader or the executor.  predict reads its confidence       *)
(* argument only on the executor's path (lines 416-418 and 434), so calls  *)
(* that end before it are made with the default threshold.                 *)
(***************************************************************************)
NoBackend == [raises |-> "none", yolo |-> <<>>, mm |-> [tuple |-> FALSE, value |-> <<>>]]

NoCall ==
    [op |-> "none", id |-> 0, image |-> "", conf |-> 0, auto_load |-> FALSE,
     env |-> OkEnv, backend |-> NoBackend, ret |-> FALSE, result |-> None,
     keys |-> <<>>, raised |-> "none", loader_calls |-> 0, executor_calls |-> 0,
     load_calls |-> 0, image_checks |-> 0, computed |-> 0, pre |-> <<>>]

IdleThreads == <<>>
NoClassify == [phase |-> "off"]
NoMM == [phase |-> "off"]
NoYolo == [phase |-> "off"]

Init ==
    /\ store \in Stores
    /\ loaded_models = <<>>
    /\ last = NoCall
    /\ thr = IdleThreads
    /\ cls = NoClassify
    /\ mm = NoMM
    /\ yl = NoYolo

EnvsOfLoad(cache, st, model_id) ==
    IF load_model(cache, st, model_id, OkEnv, 0).loader_calls > 0
    THEN LoaderEnvs ELSE {OkEnv}

BackendsOfPredict(cache, st, model_id, image, auto_load, env) ==
    IF predict(cache, st, model_id, image, DefaultConfidence, auto_load, env,
               NoBackend, 0).executor_calls > 0
    THEN { [confidence |-> c, backend |-> b] : c \in Confidences, b \in Backends }
    ELSE { [confidence |-> DefaultConfidence, backend |-> NoBackend] }

LoadModel ==
    \E model_id \in ModelIds :
      \E env \in EnvsOfLoad(loaded_models, store, model_id) :
        \E r \in {load_model(loaded_models, store, model_id, env, 0)} :
        /\ loaded_models' = r.cache
        /\ last' = [NoCall EXCEPT !.op = "load_model", !.id = model_id,
                                  !.env = env, !.ret = r.ret,
                                  !.raised = r.raised,
                                  !.loader_calls = r.loader_calls,
                                  !.pre = loaded_models]
        /\ UNCHANGED <<store, thr, cls, mm, yl>>

UnloadModel ==
    \E model_id \in ModelIds :
        \E r \in {unload_model(loaded_models, model_id)} :
        /\ loaded_models' = r.cache
        /\ last' = [NoCall EXCEPT !.op = "unload_model", !.id = model_id,
                                  !.ret = r.ret, !.pre = loaded_models]
        /\ UNCHANGED <<store, thr, cls, mm, yl>>

UnloadAllModels ==
    /\ loaded_models' = unload_all_models(loaded_models)
    /\ last' = [NoCall EXCEPT !.op = "unload_all_models", !.pre = loaded_models]
    /\ UNCHANGED <<store, thr, cls, mm, yl>>

GetLoadedModels ==
    /\ last' = [NoCall EXCEPT !.op = "get_loaded_models",
                              !.keys = get_loaded_models(loaded_models),
                              !.pre = loaded_models]
    /\ UNCHANGED <<store, loaded_models, thr, cls, mm, yl>>

Predict ==
    \E model_id \in ModelIds, image \in Images, auto_load \in BOOLEAN :
      \E env \in IF auto_load THEN EnvsOfLoad(loaded_models, store, model_id)
                 ELSE {OkEnv} :
        \E run \in BackendsOfPredict(loaded_models, store, model_id, image,
                                     auto_load, env) :
          \E r \in {predict(loaded_models, store, model_id, image,
                             run.confidence, auto_load, env, run.backend, 0)} :
          /\ loaded_models' = r.cache
          /\ last' = [NoCall EXCEPT !.op = "predict", !.id = model_id,
                                    !.image = image, !.conf = run.confidence,
                                    !.auto_load = auto_load, !.env = env,
                                    !.backend = run.backend,
                                    !.result = r.result, !.raised = r.raised,
                                    !.loader_calls = r.loader_calls,
                                    !.executor_calls = r.executor_calls,
                                    !.load_calls = r.load_calls,
                                    !.image_checks = r.image_checks,
                                    !.computed = r.computed,
                                    !.pre = loaded_models]
          /\ UNCHANGED <<store, thr, cls, mm, yl>>

Next ==
    \/ LoadModel
    \/ UnloadModel
    \/ UnloadAllModels
    \/ GetLoadedModels
    \/ Predict

Spec == Init /\ [][Next]_vars

(***************************************************************************)
(* Registry lookups: _get_model_metadata applied to a store.               *)
(***************************************************************************)
InitLookup ==
    /\ store \in Stores
    /\ loaded_models = <<>>
    /\ last = NoCall
    /\ thr = IdleThreads
    /\ cls = NoClassify
    /\ mm = NoMM
    /\ yl = NoYolo

GetModelMetadata ==
    \E model_id \in ModelIds :
        \E r \in {get_model_metadata(store, model_id)} :
        /\ last' = [NoCall EXCEPT !.op = "get_model_metadata", !.id = model_id,
                                  !.result = r,
                                  !.raised = IF r.kind = "raise" THEN r.exc
                                             ELSE "none"]
        /\ UNCHANGED <<store, loaded_models, thr, cls, mm, yl>>

NextLookup == GetModelMetadata

SpecLookup == InitLookup /\ [][NextLookup]_vars

(***************************************************************************)
(* Classifier runs: _determine_model_type applied to folder names built    *)
(* from at most MaxFrags fragments.                                        *)
(***************************************************************************)
Frags ==
    { <<"m", "m", "-">>, <<"M", "m", "-">>, <<"y", "o", "l", "o">>,
      <<"Y", "O", "l", "o">>, <<"o", "b", "b">>, <<"O", "B", "B">>,
      <<"o", "b">>, <<"x">> }

RECURSIVE Concat(_)
Concat(ss) == IF Len(ss) = 0 THEN <<>> ELSE Head(ss) \o Concat(Tail(ss))

FolderNames == { Concat(ss) : ss \in UNION { [1..n -> Frags] : n \in 0..MaxFrags } }

InitClassify ==
    /\ cls \in { [phase |-> "in", name |-> n, result |-> ""] : n \in FolderNames }
    /\ store = [exists |-> FALSE, folders |-> <<>>]
    /\ loaded_models = <<>>
    /\ last = NoCall
    /\ thr = IdleThreads
    /\ mm = NoMM
    /\ yl = NoYolo

Classify ==
    /\ cls.phase = "in"
    /\ cls' = [cls EXCEPT !.phase = "out",
                          !.result = determine_model_type(cls.name)]
    /\ UNCHANGED <<store, loaded_models, last, thr, mm, yl>>

NextClassify == Classify

SpecClassify == InitClassify /\ [][NextClassify]_vars

(***************************************************************************)
(* MMRotate executor runs: _mmrotate_inference applied to what             *)
(* inference_detector returns, two classes with at most MaxRows rows in    *)
(* all.                                                                    *)
(***************************************************************************)
Scores == {49, 50, 90}

Rows6 ==
    { <<g[1], g[2], g[3], g[4], g[5], sc>> :
        g \in { <<20, 20, 8, 4, 90>>, <<20, 20, 8, 4, 0>>, <<6, 10, 6, 2, 270>> },
        sc \in Scores }
    \cup { <<0, 0, 8, 4, a, 90>> : a \in {0, 180, 360} }

Rows5 == { <<2, 4, 10, 8, sc>> : sc \in Scores \cup {0, 100} }

RowsOther == { <<2, 4, 10, 90>>, <<20, 20, 8, 4, 90, 90, 1>> }

Rows == Rows6 \cup Rows5 \cup RowsOther

BBoxResults ==
    UNION { { << SubSeq(flat, 1, j), SubSeq(flat, j + 1, k) >> :
                flat \in [1..k -> Rows], j \in 0..k } : k \in 0..MaxRows }

MMModels ==
    { [backend |-> "mmdet", checkpoint |-> N_mm_rcnn, device |-> "cpu",
       CLASSES |-> c, obj |-> 0] :
        c \in { NoClasses, [has |-> TRUE, names |-> <<"plane", "ship">>] } }

MMRuns(confidences) ==
    { [phase |-> "in", model |-> m, confidence |-> c,
       backend |-> [raises |-> "none", yolo |-> <<>>,
                    mm |-> [tuple |-> tp,
                            value |-> IF tp THEN <<b, <<>> >> ELSE b]],
       out |-> [raised |-> "none", detections |-> <<>>]] :
        m \in MMModels, c \in confidences, tp \in BOOLEAN,
        b \in BBoxResults }

InitMM ==
    /\ mm \in MMRuns(Confidences)
    /\ store = [exists |-> FALSE, folders |-> <<>>]
    /\ loaded_models = <<>>
    /\ last = NoCall
    /\ thr = IdleThreads
    /\ cls = NoClassify
    /\ yl = NoYolo

MMRotateInference ==
    /\ mm.phase = "in"
    /\ mm' = [mm EXCEPT !.phase = "out",
                        !.out = mmrotate_inference(mm.model, mm.backend,
                                                   mm.confidence)]
    /\ UNCHANGED <<store, loaded_models, last, thr, cls, yl>>

NextMM == MMRotateInference

SpecMM == InitMM /\ [][NextMM]_vars

(***************************************************************************)
(* YOLO executor runs: _yolo_inference applied to what model.predict       *)
(* returns, one result (or one followed by a plain second result) of at    *)
(* most MaxBoxes boxes.  A box exposes xyxy and xywh, only xywh, or        *)
(* neither; result.obb is None or an array whose entries expose xyxyxyxy   *)
(* (xyxyxyxy[0].tolist(): four corner pairs) or do not.                    *)
(***************************************************************************)
PolyA == << <<2, 2>>, <<10, 2>>, <<10, 6>>, <<2, 6>> >>
PolyB == << <<4, 0>>, <<8, 4>>, <<4, 8>>, <<0, 4>> >>

YoloBoxKinds ==
    << [xyxy |-> Some(<<0, 0, 20, 20>>), xywh |-> Some(<<10, 10, 20, 20>>), cls |-> 0, conf |-> 90],
       [xyxy |-> Nothing, xywh |-> Some(<<6, 6, 4, 4>>), cls |-> 1, conf |-> 50],
       [xyxy |-> Nothing, xywh |-> Nothing, cls |-> 0, conf |-> 90],
       [xyxy |-> Some(<<4, 4, 8, 8>>), xywh |-> Some(<<6, 6, 4, 4>>), cls |-> 2, conf |-> 90] >>

YoloObbKinds ==
    << [xyxyxyxy |-> Some(PolyA)], [xyxyxyxy |-> Some(PolyB)],
       [xyxyxyxy |-> Nothing] >>

(* the sequences of at most MaxBoxes items of kinds, as sequences of       *)
(* indexes into kinds                                                      *)
Picks(kinds) == UNION { [1..k -> 1..Len(kinds)] : k \in 0..MaxBoxes }

Picked(kinds, pick) == [i \in 1..Len(pick) |-> kinds[pick[i]]]

YoloResult(no_boxes, b, no_obb, o) ==
    [boxes |-> IF no_boxes THEN Nothing ELSE Some(Picked(YoloBoxKinds, b)),
     obb |-> IF no_obb THEN Nothing ELSE Some(Picked(YoloObbKinds, o)),
     names |-> YoloNames]

YoloSecond ==
    [boxes |-> Some(<< [xyxy |-> Some(<<0, 0, 20, 20>>), xywh |-> Some(<<10, 10, 20, 20>>),
                   cls |-> 1, conf |-> 50] >>),
     obb |-> Nothing, names |-> YoloNames]

YoloRun(raises, r, second) ==
    [raises |-> raises,
     yolo |-> IF raises # "none" THEN <<>>
              ELSE IF second THEN <<r, YoloSecond>> ELSE <<r>>,
     mm |-> NoBackend.mm]

InitYolo ==
    /\ \E raises \in {"none", "RuntimeError"}, second \in BOOLEAN,
          no_boxes \in BOOLEAN, no_obb \in BOOLEAN :
         \E b \in IF no_boxes THEN {<<>>} ELSE Picks(YoloBoxKinds),
            o \in IF no_obb THEN {<<>>} ELSE Picks(YoloObbKinds) :
           yl = [phase |-> "in",
                 backend |-> YoloRun(raises, YoloResult(no_boxes, b, no_obb, o),
                                     second),
                 out |-> [raised |-> "none", detections |-> <<>>]]
    /\ store = [exists |-> FALSE, folders |-> <<>>]
    /\ loaded_models = <<>>
    /\ last = NoCall
    /\ thr = IdleThreads
    /\ cls = NoClassify
    /\ mm = NoMM

YoloInference ==
    /\ yl.phase = "in"
    /\ yl' = [yl EXCEPT !.phase = "out", !.out = yolo_inference(yl.backend)]
    /\ UNCHANGED <<store, loaded_models, last, thr, cls, mm>>

NextYolo == YoloInference

SpecYolo == InitYolo /\ [][NextYolo]_vars

(***************************************************************************)
(* Executor runs of both families: the runs of SpecMM, also with a         *)
(* threshold below 0 and one above 1, and the runs of SpecYolo.            *)
(***************************************************************************)
Thresholds == Confidences \cup {-10, 150}

InitExec ==
    \/ /\ mm \in MMRuns(Thresholds)
       /\ store = [exists |-> FALSE, folders |-> <<>>]
       /\ loaded_models = <<>>
       /\ last = NoCall
       /\ thr = IdleThreads
       /\ cls = NoClassify
       /\ yl = NoYolo
    \/ InitYolo

NextExec ==
    \/ MMRotateInference
    \/ YoloInference

SpecExec == InitExec /\ [][NextExec]_vars

(***************************************************************************)
(* Concurrent runs: two threads, each making one call on the shared        *)
(* service, interleaved at the accesses to self.loaded_models (each dict   *)
(* operation is atomic).  pc is the line the thread is about to execute.   *)
(***************************************************************************)
Threads == {1, 2}

ConcStore ==
    [exists |-> TRUE,
     folders |-> << Folder(N_YOLOv8, TRUE, "object", 1, "YOLOv8n-COCO", TRUE, FALSE),
                    Folder(N_mm_rcnn, TRUE, "object", 2, "Oriented-RCNN", TRUE, TRUE) >>]

ConcEnvs == { OkEnv, LoaderEnv("ImportError", FALSE, NoClasses) }

Call(op, id, auto_load, image, env) ==
    [op |-> op, id |-> id, auto_load |-> auto_load, image |-> image, env |-> env]

Calls ==
    { Call("load_model", id, FALSE, "", env) : id \in ModelIds, env \in ConcEnvs }
    \cup { Call("predict", id, TRUE, image, env) :
             id \in ModelIds, image \in {"ok", "missing"}, env \in ConcEnvs }
    \cup { Call("predict", id, FALSE, image, OkEnv) :
             id \in ModelIds, image \in {"ok", "missing"} }
    \cup { Call("unload_model", id, FALSE, "", OkEnv) : id \in ModelIds }
    \cup { Call("unload_all_models", 0, FALSE, "", OkEnv) }

FirstLine(op) ==
    CASE op = "load_model" -> "L146"
      [] op = "predict" -> "P377"
      [] op = "unload_model" -> "U453"
      [] op = "unload_all_models" -> "A460"

(* the caches a run can start from: what loads made one after the other leave *)
StartCaches ==
    LET c(ids) == IF Len(ids) = 0 THEN <<>>
                  ELSE IF Len(ids) = 1
                       THEN load_model(<<>>, ConcStore, ids[1], OkEnv, 0).cache
                       ELSE load_model(load_model(<<>>, ConcStore, ids[1], OkEnv, 0).cache,
                                       ConcStore, ids[2], OkEnv, 0).cache
    IN { c(<<>>), c(<<1>>), c(<<2>>), c(<<1, 2>>), c(<<2, 1>>) }

NoResult == [ret |-> FALSE, result |-> None, raised |-> "none"]

InitConc ==
    /\ store = ConcStore
    /\ loaded_models \in StartCaches
    /\ \E c1 \in Calls, c2 \in Calls :
         thr = [call |-> <<c1, c2>>,
                pc |-> <<FirstLine(c1.op), FirstLine(c2.op)>>,
                res |-> <<NoResult, NoResult>>,
                entry |-> <<None, None>>,
                loads |-> <<0, 0>>,
                hit |-> <<FALSE, FALSE>>,
                start |-> loaded_models,
                writes |-> <<>>]
    /\ last = NoCall
    /\ cls = NoClassify
    /\ mm = NoMM
    /\ yl = NoYolo

Done(t, ret, result, raised) ==
    [thr EXCEPT !.pc[t] = "done",
                !.res[t] = [ret |-> ret, result |-> result, raised |-> raised]]

(* what load_model's return means to its caller: predict goes on at line *)
(* 390 when load_model returned True                                     *)
AfterLoad(t, r) ==
    IF thr.call[t].op = "load_model"
    THEN [r EXCEPT !.pc[t] = "done",
                   !.res[t] = [ret |-> TRUE, result |-> None, raised |-> "none"]]
    ELSE [r EXCEPT !.pc[t] = "P391"]

(* line 146: if model_id in self.loaded_models: return True *)
L146(t) ==
    /\ thr.pc[t] = "L146"
    /\ thr' = IF DictHas(loaded_models, thr.call[t].id)
              THEN AfterLoad(t, thr)
              ELSE [thr EXCEPT !.pc[t] = "L150"]
    /\ UNCHANGED <<store, loaded_models, last, cls, mm, yl>>

(* lines 150-165/173: metadata, checkpoint, family, loader *)
L150(t) ==
    /\ thr.pc[t] = "L150"
    /\ LET c == thr.call[t]
           p == LoadPrepare(store, c.id, c.env, t)
           counted == [thr EXCEPT !.loads[t] = @ + p.loader_calls]
       IN thr' = IF p.kind = "entry"
                 THEN [counted EXCEPT !.pc[t] = "L166", !.entry[t] = p.val]
                 ELSE IF p.kind = "raise"
                      THEN [counted EXCEPT !.pc[t] = "done",
                               !.res[t] = [ret |-> FALSE, result |-> None,
                                           raised |-> p.exc]]
                      ELSE [counted EXCEPT !.pc[t] = "done",
                               !.res[t] = [ret |-> FALSE, raised |-> "none",
                                           result |-> IF c.op = "predict"
                                                      THEN Failure("Failed to load model")
                                                      ELSE None]]
    /\ UNCHANGED <<store, loaded_models, last, cls, mm, yl>>

(* lines 166/174: self.loaded_models[model_id] = {...}; return True *)
L166(t) ==
    /\ thr.pc[t] = "L166"
    /\ loaded_models' = DictSet(loaded_models, thr.call[t].id, thr.entry[t])
    /\ thr' = AfterLoad(t, [thr EXCEPT !.writes = Append(@, <<t, thr.call[t].id>>)])
    /\ UNCHANGED <<store, last, cls, mm, yl>>

(* line 377: if model_id not in self.loaded_models *)
P377(t) ==
    /\ thr.pc[t] = "P377"
    /\ thr' = IF DictHas(loaded_models, thr.call[t].id)
              THEN [thr EXCEPT !.pc[t] = "P391", !.hit[t] = TRUE]
              ELSE IF thr.call[t].auto_load
                   THEN [thr EXCEPT !.pc[t] = "L146"]
                   ELSE Done(t, FALSE, Failure("Model not loaded"), "none")
    /\ UNCHANGED <<store, loaded_models, last, cls, mm, yl>>

(* lines 390-405: the image checks *)
P391(t) ==
    /\ thr.pc[t] = "P391"
    /\ thr' = IF ImageCheck(thr.call[t].image) # None
              THEN Done(t, FALSE, ImageCheck(thr.call[t].image), "none")
              ELSE [thr EXCEPT !.pc[t] = "P408"]
    /\ UNCHANGED <<store, loaded_models, last, cls, mm, yl>>

(* line 408: model_info = self.loaded_models[model_id], then lines 409-441 *)
P408(t) ==
    /\ thr.pc[t] = "P408"
    /\ LET r == PredictRun(loaded_models, thr.call[t].id, thr.call[t].image,
                           DefaultConfidence, NoBackend)
       IN thr' = Done(t, FALSE, r.result, r.raised)
    /\ UNCHANGED <<store, loaded_models, last, cls, mm, yl>>

(* line 453: if model_id in self.loaded_models *)
U453(t) ==
    /\ thr.pc[t] = "U453"
    /\ thr' = IF DictHas(loaded_models, thr.call[t].id)
              THEN [thr EXCEPT !.pc[t] = "U454"]
              ELSE Done(t, FALSE, None, "none")
    /\ UNCHANGED <<store, loaded_models, last, cls, mm, yl>>

(* line 454: del self.loaded_models[model_id]; return True *)
U454(t) ==
    /\ thr.pc[t] = "U454"
    /\ IF DictHas(loaded_models, thr.call[t].id)
       THEN /\ loaded_models' = DictDel(loaded_models, thr.call[t].id)
            /\ thr' = Done(t, TRUE, None, "none")
       ELSE /\ loaded_models' = loaded_models
            /\ thr' = Done(t, FALSE, None, "KeyError")
    /\ UNCHANGED <<store, last, cls, mm, yl>>

(* line 460: self.loaded_models.clear() *)
A460(t) ==
    /\ thr.pc[t] = "A460"
    /\ loaded_models' = unload_all_models(loaded_models)
    /\ thr' = Done(t, FALSE, None, "none")
    /\ UNCHANGED <<store, last, cls, mm, yl>>

NextConc ==
    \E t \in Threads :
        \/ L146(t)
        \/ L150(t)
        \/ L166(t)
        \/ P377(t)
        \/ P391(t)
        \/ P408(t)
        \/ U453(t)
        \/ U454(t)
        \/ A460(t)

SpecConc == InitConc /\ [][NextConc]_vars

(***************************************************************************)
(* The service over a store that changes between calls: a checkpoint file  *)
(* is deleted, a metadata.json is deleted, or its name field is edited.    *)
(***************************************************************************)
NoDescriptor == [kind |-> "absent", id |-> 0, name |-> ""]

StartStores ==
    { [exists |-> TRUE, folders |-> <<ConcStore.folders[i]>>] :
        i \in 1..Len(ConcStore.folders) }

InitStore ==
    /\ store \in StartStores
    /\ loaded_models = <<>>
    /\ last = NoCall
    /\ thr = IdleThreads
    /\ cls = NoClassify
    /\ mm = NoMM
    /\ yl = NoYolo

RemoveCheckpoint ==
    \E i \in 1..Len(store.folders) :
        /\ store.folders[i].ckpt
        /\ store' = [store EXCEPT !.folders[i].ckpt = FALSE]
        /\ UNCHANGED <<loaded_models, last, thr, cls, mm, yl>>

RemoveDescriptor ==
    \E i \in 1..Len(store.folders) :
        /\ store.folders[i].desc.kind = "object"
        /\ store' = [store EXCEPT !.folders[i].desc = NoDescriptor]
        /\ UNCHANGED <<loaded_models, last, thr, cls, mm, yl>>

EditDescriptor ==
    \E i \in 1..Len(store.folders) :
        /\ store.folders[i].desc.kind = "object"
        /\ store.folders[i].desc.name # "renamed"
        /\ store' = [store EXCEPT !.folders[i].desc.name = "renamed"]
        /\ UNCHANGED <<loaded_models, last, thr, cls, mm, yl>>

NextStore ==
    \/ LoadModel
    \/ UnloadModel
    \/ UnloadAllModels
    \/ GetLoadedModels
    \/ Predict
    \/ RemoveCheckpoint
    \/ RemoveDescriptor
    \/ EditDescriptor

SpecStore == InitStore /\ [][NextStore]_vars

(***************************************************************************)
(* Properties                                                              *)
(***************************************************************************)
Keys(cache) == { cache[i].key : i \in 1..Len(cache) }

Resolves(st, model_id) == get_model_metadata(st, model_id).kind = "found"

ResolvedFolder(st, model_id) == get_model_metadata(st, model_id).metadata.folder

SupportedFamily(st, model_id) ==
    determine_model_type(ResolvedFolder(st, model_id)) \in {"yolo", "yolo-obb", "mmrotate"}

LoaderSucceeds(st, model_id, env) ==
    /\ env.fault = "none"
    /\ determine_model_type(ResolvedFolder(st, model_id)) = "mmrotate"
         => PathExists(st, ResolvedFolder(st, model_id), "config.py")

(* a load_model call on an id that was cached when it was made *)
SecondLoad ==
    last.op = "load_model" /\ DictHas(last.pre, last.id) =>
        /\ last.raised = "none" /\ last.ret = TRUE
        /\ last.loader_calls = 0
        /\ loaded_models = last.pre
        /\ Count(loaded_models, last.id) = 1

(* C1 as stated: whenever the metadata of id resolves and its checkpoint   *)
(* file exists, load_model(id) returns true; a second load_model(id)       *)
(* returns true, does not invoke the loader and leaves one entry for id.   *)
C1_Original ==
    /\ ( /\ last.op = "load_model"
         /\ Resolves(store, last.id)
         /\ PathExists(store, ResolvedFolder(store, last.id), "file.pt") )
       => (last.raised = "none" /\ last.ret = TRUE)
    /\ SecondLoad

(* C1 amended: whenever the metadata of id resolves, its checkpoint file   *)
(* exists, its folder classifies as yolo, yolo-obb or mmrotate and the     *)
(* family loader does not raise, load_model(id) returns true and the cache *)
(* holds exactly one entry for id; a second load_model(id) returns true,   *)
(* does not invoke the loader and leaves the cache as it was, with one     *)
(* entry for id.                                                           *)
C1_LoadIdempotent ==
    /\ ( /\ last.op = "load_model"
         /\ Resolves(store, last.id)
         /\ PathExists(store, ResolvedFolder(store, last.id), "file.pt")
         /\ SupportedFamily(store, last.id)
         /\ LoaderSucceeds(store, last.id, last.env) )
       => ( /\ last.raised = "none" /\ last.ret = TRUE
            /\ Count(loaded_models, last.id) = 1 )
    /\ SecondLoad

C1_Witness ==
    /\ last.op = "load_model" /\ DictHas(last.pre, last.id)
    /\ last.ret = TRUE /\ last.loader_calls = 0
    /\ Count(loaded_models, last.id) = 1

NoDescriptorFor(st, model_id) ==
    \A i \in 1..Len(st.folders) :
        ~( /\ st.folders[i].is_dir
           /\ st.folders[i].desc.kind = "object"
           /\ st.folders[i].desc.id = model_id )

(* C2: for a model_id that no descriptor of the store resolves, load_model *)
(* returns false and the cache is what it was before the call.             *)
C2_UnresolvableReturnsFalse ==
    ( /\ last.op = "load_model"
      /\ NoDescriptorFor(store, last.id)
      /\ ~DictHas(last.pre, last.id) )
    => ( /\ last.raised = "none" /\ last.ret = FALSE
         /\ loaded_models = last.pre )

(* C3: unload_model(id) on an id that is not cached returns false and      *)
(* changes nothing; on a cached id it returns true, afterwards id is not   *)
(* in get_loaded_models() and every other cached id still is, with its     *)
(* entry.                                                                  *)
C3_Unload ==
    last.op = "unload_model" =>
        IF ~DictHas(last.pre, last.id)
        THEN last.ret = FALSE /\ loaded_models = last.pre
        ELSE /\ last.ret = TRUE
             /\ \A i \in 1..Len(get_loaded_models(loaded_models)) :
                    get_loaded_models(loaded_models)[i] # last.id
             /\ \A k \in Keys(last.pre) \ {last.id} :
                    /\ \E i \in 1..Len(get_loaded_models(loaded_models)) :
                           get_loaded_models(loaded_models)[i] = k
                    /\ DictGet(loaded_models, k) = DictGet(last.pre, k)

C3_Witness ==
    /\ last.op = "unload_model" /\ last.ret = TRUE
    /\ Len(last.pre) = 2 /\ last.pre[2].key = last.id
    /\ Len(loaded_models) = 1

(* C4: in a single-threaded run predict never raises: for every            *)
(* combination of cached or uncached model, auto_load, image state and     *)
(* executor outcome it returns a value tagged success = True or False.     *)
C4_PredictNeverRaises ==
    last.op = "predict" =>
        /\ last.raised = "none"
        /\ last.result.success \in BOOLEAN

(* C5: no exception escapes load_model: every failure while resolving the  *)
(* metadata or running the family loader becomes the return value false,   *)
(* and the cache is unchanged after such a failure.                        *)
C5_LoadNeverRaises ==
    last.op = "load_model" =>
        /\ last.raised = "none"
        /\ last.ret = FALSE => loaded_models = last.pre

BothLoad(id) ==
    /\ \A t \in Threads : thr.call[t].op = "load_model" /\ thr.call[t].id = id
    /\ ~DictHas(thr.start, id)

AllDone == \A t \in Threads : thr.pc[t] = "done"

(* C6: when two load_model(id) calls for the same uncached id interleave,  *)
(* the cache never holds more than one entry for id and the entries of the *)
(* other ids are untouched; once both calls have returned and one of them  *)
(* returned true, the cache holds exactly one entry for id, the one the    *)
(* later write stored.                                                     *)
C6_DoubleLoadOneEntry ==
    \A id \in ModelIds :
        BothLoad(id) =>
            /\ Count(loaded_models, id) <= 1
            /\ SelectSeq(loaded_models, LAMBDA e : e.key # id) = thr.start
            /\ (AllDone /\ \E t \in Threads : thr.res[t].ret)
                 => /\ Count(loaded_models, id) = 1
                    /\ DictGet(loaded_models, id).model.obj
                         = thr.writes[Len(thr.writes)][1]

(* both calls passed the `already loaded' check, both ran the loader, both *)
(* wrote                                                                   *)
C6_Witness ==
    \E id \in ModelIds :
        /\ BothLoad(id) /\ AllDone
        /\ thr.loads = <<1, 1>> /\ Len(thr.writes) = 2
        /\ Len(thr.start) = 1
        /\ Count(loaded_models, id) = 1

(* C7: a predict(id) that found id cached at line 377 returns a tagged     *)
(* success/failure value and does not raise, also when the other thread's  *)
(* unload_model(id) or unload_all_models() runs before predict reads the   *)
(* cache entry.                                                            *)
C7_PredictNeverRaisesUnderUnload ==
    \A t \in Threads :
        ( /\ thr.call[t].op = "predict" /\ thr.hit[t] /\ thr.pc[t] = "done"
          /\ \E u \in Threads \ {t} :
                 thr.call[u].op \in {"unload_model", "unload_all_models"} )
        => ( /\ thr.res[t].raised = "none"
             /\ thr.res[t].result.success \in BOOLEAN )

ContainsCI(s, sub) ==
    \E i \in 1..(Len(s) - Len(sub) + 1) :
        \A j \in 1..Len(sub) : LowerChar(s[i + j - 1]) = sub[j]

StartsWithCI(s, p) ==
    Len(s) >= Len(p) /\ \A j \in 1..Len(p) : LowerChar(s[j]) = p[j]

Families == {"yolo", "yolo-obb", "mmrotate", "unknown"}

(* C8 as stated, matching the folder name as it is written: contains       *)
(* 'yolo' and 'obb' gives 'yolo-obb'; else contains 'yolo' gives 'yolo';   *)
(* else starts with 'mm-' gives 'mmrotate'; otherwise 'unknown'.           *)
C8_Original ==
    cls.phase = "out" =>
        /\ cls.result \in Families
        /\ cls.result = "yolo-obb"
             <=> (Contains(cls.name, S_yolo) /\ Contains(cls.name, S_obb))
        /\ cls.result = "yolo"
             <=> (Contains(cls.name, S_yolo) /\ ~Contains(cls.name, S_obb))
        /\ cls.result = "mmrotate"
             <=> (~Contains(cls.name, S_yolo) /\ StartsWith(cls.name, S_mm))
        /\ cls.result = "unknown"
             <=> (~Contains(cls.name, S_yolo) /\ ~StartsWith(cls.name, S_mm))

(* C8 amended: _determine_model_type is total over folder names and        *)
(* matches them ignoring case, first match winning: contains 'yolo' and    *)
(* 'obb' gives 'yolo-obb'; else contains 'yolo' gives 'yolo'; else starts  *)
(* with 'mm-' gives 'mmrotate'; otherwise 'unknown'.                       *)
C8_ClassifyFirstMatch ==
    cls.phase = "out" =>
        /\ cls.result \in Families
        /\ cls.result = "yolo-obb"
             <=> (ContainsCI(cls.name, S_yolo) /\ ContainsCI(cls.name, S_obb))
        /\ cls.result = "yolo"
             <=> (ContainsCI(cls.name, S_yolo) /\ ~ContainsCI(cls.name, S_obb))
        /\ cls.result = "mmrotate"
             <=> (~ContainsCI(cls.name, S_yolo) /\ StartsWithCI(cls.name, S_mm))
        /\ cls.result = "unknown"
             <=> (~ContainsCI(cls.name, S_yolo) /\ ~StartsWithCI(cls.name, S_mm))

(* a name that starts with 'mm-' and contains 'yolo' is classified yolo *)
C8_Witness ==
    /\ cls.phase = "out"
    /\ StartsWith(cls.name, S_mm) /\ Contains(cls.name, S_yolo)
    /\ ~ContainsCI(cls.name, S_obb)
    /\ cls.result = "yolo"

(* the rows of the backend's result, in class order, with their class ids *)
RECURSIVE FlatRows(_, _)
FlatRows(bbox_result, c) ==
    IF c > Len(bbox_result) THEN <<>>
    ELSE [i \in 1..Len(bbox_result[c]) |->
             [class_id |-> c - 1, row |-> bbox_result[c][i]]]
         \o FlatRows(bbox_result, c + 1)

InputRows ==
    FlatRows(IF mm.backend.mm.tuple THEN mm.backend.mm.value[1]
             ELSE mm.backend.mm.value, 1)

ScoreOf(row) == row[Len(row)]

(* the 5- and 6-field rows whose score is at least the threshold *)
Kept ==
    SelectSeq(InputRows,
              LAMBDA r : Len(r.row) \in {5, 6} /\ ScoreOf(r.row) >= mm.confidence)

(* C9: in the MMRotate executor a 5- or 6-field row appears in the output  *)
(* if and only if its score >= confidence_threshold: the detections are,   *)
(* in order, those rows, each with its class and its score.                *)
C9_ThresholdInclusive ==
    (mm.phase = "out" /\ mm.out.raised = "none") =>
        /\ Len(mm.out.detections) = Len(Kept)
        /\ \A i \in 1..Len(Kept) :
               /\ mm.out.detections[i].class_id = Kept[i].class_id
               /\ mm.out.detections[i].confidence = ScoreOf(Kept[i].row)

(* a row at the threshold is in the output, a row below it is not *)
C9_Witness ==
    /\ mm.phase = "out" /\ mm.confidence = 50
    /\ Len(InputRows) = 2 /\ Len(mm.out.detections) = 1
    /\ ScoreOf(InputRows[1].row) = 49 /\ Len(InputRows[1].row) = 6
    /\ ScoreOf(InputRows[2].row) = 50 /\ Len(InputRows[2].row) = 6
    /\ mm.out.detections[1].confidence = 50

(* C10: every retained 6-field row [cx,cy,w,h,angle,score] is emitted with *)
(* bbox = [cx-w/2, cy-h/2, w, h], bbox_type 'xywha', the row's angle and   *)
(* an obb of 8 values; the row [10,10,4,2,90,0.9] yields angle 90 and the  *)
(* corners (11,8),(11,12),(9,12),(9,8) (here in half units).               *)
C10_RotatedRow ==
    (mm.phase = "out" /\ mm.out.raised = "none"
       /\ Len(mm.out.detections) = Len(Kept)) =>
        \A i \in 1..Len(Kept) :
            LET row == Kept[i].row
                det == mm.out.detections[i]
            IN Len(row) = 6 =>
                 /\ det.bbox = <<row[1] - row[3] \div 2, row[2] - row[4] \div 2,
                                 row[3], row[4]>>
                 /\ det.bbox_type = "xywha"
                 /\ det.angle = row[5]
                 /\ Len(det.obb) = 8
                 /\ row = <<20, 20, 8, 4, 90, 90>>
                      => det.obb = <<22, 16, 22, 24, 18, 24, 18, 16>>

C10_Witness ==
    /\ mm.phase = "out" /\ mm.confidence = 50
    /\ \E i \in 1..Len(mm.out.detections) :
           /\ "angle" \in DOMAIN mm.out.detections[i]
           /\ mm.out.detections[i].angle = 90
           /\ mm.out.detections[i].confidence = 90
           /\ mm.out.detections[i].obb = <<22, 16, 22, 24, 18, 24, 18, 16>>

(* C11: every retained 5-field row [x1,y1,x2,y2,score] is emitted with     *)
(* bbox = [x1, y1, x2-x1, y2-y1] and bbox_type 'xywh', and its detection   *)
(* has neither an 'angle' key nor an 'obb' key.                            *)
C11_AxisAlignedRow ==
    (mm.phase = "out" /\ mm.out.raised = "none"
       /\ Len(mm.out.detections) = Len(Kept)) =>
        \A i \in 1..Len(Kept) :
            LET row == Kept[i].row
                det == mm.out.detections[i]
            IN Len(row) = 5 =>
                 /\ det.bbox = <<row[1], row[2], row[3] - row[1], row[4] - row[2]>>
                 /\ det.bbox_type = "xywh"
                 /\ "angle" \notin DOMAIN det
                 /\ "obb" \notin DOMAIN det

(* the row [1,2,5,4,0.5] (half units: 2,4,10,8) at threshold 0.5 *)
C11_Witness ==
    /\ mm.phase = "out" /\ mm.confidence = 50
    /\ \E i \in 1..Len(mm.out.detections) :
           /\ mm.out.detections[i].bbox_type = "xywh"
           /\ mm.out.detections[i].bbox = <<2, 4, 8, 4>>
           /\ mm.out.detections[i].confidence = 50
           /\ DOMAIN mm.out.detections[i]
                = {"class_id", "class_name", "confidence", "bbox", "bbox_type"}

(* the vector (u, v) turned by a whole number of quarter turns *)
QuarterTurn(a, u, v) ==
    CASE a % 360 = 0 -> <<u, v>>
      [] a % 360 = 90 -> <<-v, u>>
      [] a % 360 = 180 -> <<-u, -v>>
      [] a % 360 = 270 -> <<v, -u>>

SignOrder == << <<-1, -1>>, <<1, -1>>, <<1, 1>>, <<-1, 1>> >>

(* C12: the obb of a retained 6-field row lists, for the signs (-1,-1),    *)
(* (1,-1), (1,1), (-1,1) in this order, the box centre plus the half       *)
(* extents (sx*w/2, sy*h/2) turned by the row's angle; at angle 0 and at   *)
(* angle 360 these are the corners of the axis-aligned rectangle: centre   *)
(* (0,0), w=4, h=2 gives [-2,-1, 2,-1, 2,1, -2,1] (here in half units).    *)
C12_CornerOrder ==
    (mm.phase = "out" /\ mm.out.raised = "none"
       /\ Len(mm.out.detections) = Len(Kept)) =>
        \A i \in 1..Len(Kept) :
            LET row == Kept[i].row
                det == mm.out.detections[i]
            IN Len(row) = 6 =>
                 /\ Len(det.obb) = 8
                 /\ \A k \in 1..4 :
                        <<det.obb[2 * k - 1] - row[1], det.obb[2 * k] - row[2]>>
                          = QuarterTurn(row[5], SignOrder[k][1] * (row[3] \div 2),
                                        SignOrder[k][2] * (row[4] \div 2))
                 /\ (row[5] \in {0, 360} /\ row[1] = 0 /\ row[2] = 0
                       /\ row[3] = 8 /\ row[4] = 4)
                      => det.obb = <<-4, -2, 4, -2, 4, 2, -4, 2>>

(* the box of centre (0,0), w=4, h=2 at angle 360 *)
C12_Witness ==
    /\ mm.phase = "out"
    /\ \E i \in 1..Len(mm.out.detections) :
           /\ "angle" \in DOMAIN mm.out.detections[i]
           /\ mm.out.detections[i].angle = 360
           /\ mm.out.detections[i].obb = <<-4, -2, 4, -2, 4, 2, -4, 2>>

(* C13: predict on an id that is not cached, with auto_load = False,       *)
(* returns the failure 'Model not loaded', calls neither load_model nor a  *)
(* family loader nor an executor, and leaves the cache as it was.          *)
C13_NotLoadedNoAutoLoad ==
    ( /\ last.op = "predict"
      /\ ~DictHas(last.pre, last.id)
      /\ ~last.auto_load )
    => ( /\ last.raised = "none"
         /\ last.result = [success |-> FALSE, error |-> "Model not loaded"]
         /\ last.load_calls = 0 /\ last.loader_calls = 0
         /\ last.executor_calls = 0
         /\ loaded_models = last.pre )

(* the call was on a model that load_model would have loaded, with a good  *)
(* image                                                                   *)
C13_Witness ==
    /\ last.op = "predict" /\ ~DictHas(last.pre, last.id) /\ ~last.auto_load
    /\ last.image = "ok"
    /\ Resolves(store, last.id)
    /\ PathExists(store, ResolvedFolder(store, last.id), "file.pt")
    /\ SupportedFamily(store, last.id)
    /\ LoaderSucceeds(store, last.id, last.env)
    /\ last.result.error = "Model not loaded"
    /\ loaded_models = last.pre

(* C14: predict on an id that is not cached, with auto_load = True, calls  *)
(* load_model exactly once; when that load returns false, predict returns  *)
(* the failure 'Failed to load model', runs neither the image checks nor   *)
(* an executor, and the cache is what it was before the call.              *)
C14_AutoLoadFailure ==
    ( /\ last.op = "predict"
      /\ ~DictHas(last.pre, last.id)
      /\ last.auto_load )
    => ( /\ last.load_calls = 1
         /\ LET load == load_model(last.pre, store, last.id, last.env, 0) IN
            (load.raised = "none" /\ ~load.ret) =>
                /\ last.raised = "none"
                /\ last.result = [success |-> FALSE,
                                  error |-> "Failed to load model"]
                /\ last.image_checks = 0
                /\ last.executor_calls = 0
                /\ loaded_models = last.pre )

(* the family loader was run and raised, and the image was missing *)
C14_Witness ==
    /\ last.op = "predict" /\ ~DictHas(last.pre, last.id) /\ last.auto_load
    /\ last.load_calls = 1 /\ last.loader_calls = 1
    /\ last.image = "missing"
    /\ last.raised = "none"
    /\ last.result.error = "Failed to load model"
    /\ Len(last.pre) = 1 /\ loaded_models = last.pre

(* C15: with the model cached, predict on an image that does not exist     *)
(* returns the failure 'Image not found', on an image that cannot be       *)
(* opened the failure 'Failed to read image'; in both cases no executor is *)
(* invoked.                                                                *)
C15_BadImageNoExecutor ==
    ( /\ last.op = "predict"
      /\ DictHas(last.pre, last.id)
      /\ last.image \in {"missing", "corrupt"} )
    => ( /\ last.raised = "none"
         /\ last.result =
              [success |-> FALSE,
               error |-> IF last.image = "missing" THEN "Image not found"
                         ELSE "Failed to read image"]
         /\ last.image_checks = 1
         /\ last.executor_calls = 0 )

C15_Witness ==
    /\ last.op = "predict" /\ DictHas(last.pre, last.id)
    /\ last.image = "corrupt"
    /\ last.result.error = "Failed to read image"
    /\ last.executor_calls = 0

FailureReasons ==
    {"Failed to load model", "Model not loaded", "Image not found",
     "Failed to read image", "Unsupported model type", "Inference failed"}

(* C16: every failure value predict returns has exactly the keys success   *)
(* (False) and error (a reason): no detections, no detection_count, also   *)
(* when the executor raised after it had computed detections.              *)
C16_NoPartialSuccess ==
    (last.op = "predict" /\ last.raised = "none") =>
        /\ last.result.success \in BOOLEAN
        /\ ~last.result.success =>
              /\ DOMAIN last.result = {"success", "error"}
              /\ last.result.error \in FailureReasons

(* the executor raised with detections in its list *)
C16_Witness ==
    /\ last.op = "predict" /\ last.raised = "none"
    /\ ~last.result.success
    /\ last.executor_calls = 1 /\ last.computed > 0
    /\ last.result.error = "Inference failed"

(* C17: every success value predict returns has detection_count =          *)
(* len(detections), model_id and confidence_threshold equal to the call's  *)
(* arguments, and model_name and model_type equal to the name and the type *)
(* in the cache entry of that id.                                          *)
C17_SuccessFields ==
    (last.op = "predict" /\ last.raised = "none" /\ last.result.success) =>
        /\ last.result.detection_count = Len(last.result.detections)
        /\ last.result.model_id = last.id
        /\ last.result.confidence_threshold = last.conf
        /\ \E i \in 1..Len(loaded_models) :
               /\ loaded_models[i].key = last.id
               /\ last.result.model_name = loaded_models[i].val.metadata.name
               /\ last.result.model_type = loaded_models[i].val.type

(* a success on the second of two cached models, with two detections *)
C17_Witness ==
    /\ last.op = "predict" /\ last.raised = "none" /\ last.result.success
    /\ Len(last.pre) = 2 /\ last.pre[2].key = last.id
    /\ last.result.detection_count = 2
    /\ last.conf = 50

(* the boxes of the backend's results, in order: [r, idx] is box idx of    *)
(* result r (both 1-based)                                                 *)
RECURSIVE BoxRefs(_, _)
BoxRefs(results, r) ==
    IF r > Len(results) THEN <<>>
    ELSE (IF ~results[r].boxes.has THEN <<>>
          ELSE [i \in 1..Len(results[r].boxes.v) |-> [r |-> r, idx |-> i]])
         \o BoxRefs(results, r + 1)

BoxAt(results, ref) == results[ref.r].boxes.v[ref.idx]

(* the boxes that expose xyxy or xywh coordinates *)
ExposedRefs(results) ==
    SelectSeq(BoxRefs(results, 1),
              LAMBDA ref : BoxAt(results, ref).xyxy.has
                             \/ BoxAt(results, ref).xywh.has)

YoloSuccess ==
    /\ last.op = "predict" /\ last.raised = "none" /\ last.result.success
    /\ last.result.model_type \in {"yolo", "yolo-obb"}

(* C18 as stated: a successful predict on a yolo or yolo-obb model reports *)
(* detection_count equal to the number of boxes the backend returned, all  *)
(* of confidence >= threshold: the executor drops none of them.            *)
C18_Original ==
    YoloSuccess =>
        last.result.detection_count
          = Len(SelectSeq(BoxRefs(last.backend.yolo, 1),
                          LAMBDA ref : BoxAt(last.backend.yolo, ref).conf >= last.conf))

(* C18 amended: a successful predict on a yolo or yolo-obb model reports   *)
(* detection_count equal to the number of boxes the backend returned that  *)
(* expose xyxy or xywh coordinates, and its detections are those boxes in  *)
(* order, each with its class id and confidence: the executor drops a box  *)
(* only when it exposes neither representation.                            *)
C18_YoloCount ==
    YoloSuccess =>
        LET exposed == ExposedRefs(last.backend.yolo) IN
        /\ last.result.detection_count = Len(exposed)
        /\ Len(last.result.detections) = Len(exposed)
        /\ \A i \in 1..Len(exposed) :
               /\ last.result.detections[i].class_id
                    = BoxAt(last.backend.yolo, exposed[i]).cls
               /\ last.result.detections[i].confidence
                    = BoxAt(last.backend.yolo, exposed[i]).conf

(* the backend returned two boxes, one of them exposing only xywh and the  *)
(* other no coordinates                                                    *)
C18_Witness ==
    /\ YoloSuccess
    /\ last.conf = 50
    /\ Len(BoxRefs(last.backend.yolo, 1)) = 2
    /\ last.result.detection_count = 1
    /\ last.result.detections[1].bbox_type = "xywh"

(* result.obb holds an entry for box idx that exposes xyxyxyxy *)
CarriesObb(results, ref) ==
    /\ results[ref.r].obb.has
    /\ ref.idx <= Len(results[ref.r].obb.v)
    /\ results[ref.r].obb.v[ref.idx].xyxyxyxy.has

(* C19: the YOLO executor emits one detection per box that exposes         *)
(* coordinates; when result.obb carries an oriented-box array for the      *)
(* box's index, the detection has bbox_type 'obb' and an 'obb' field       *)
(* holding that array (the backend's corner coordinates, unchanged); when  *)
(* it carries none, bbox_type is 'xyxy' or 'xywh', whichever the box       *)
(* exposes first, and the detection has no 'obb' field.                    *)
C19_YoloObb ==
    (yl.phase = "out" /\ yl.out.raised = "none") =>
        LET results == yl.backend.yolo
            exposed == ExposedRefs(results)
        IN /\ Len(yl.out.detections) = Len(exposed)
           /\ \A i \in 1..Len(exposed) :
                  LET det == yl.out.detections[i]
                      box == BoxAt(results, exposed[i])
                  IN IF CarriesObb(results, exposed[i])
                     THEN /\ det.bbox_type = "obb"
                          /\ "obb" \in DOMAIN det
                          /\ det.obb
                               = results[exposed[i].r].obb.v[exposed[i].idx].xyxyxyxy.v
                     ELSE /\ det.bbox_type
                               = IF box.xyxy.has THEN "xyxy" ELSE "xywh"
                          /\ "obb" \notin DOMAIN det

(* a result with oriented boxes for both of its boxes, followed by a       *)
(* result without oriented boxes                                           *)
C19_Witness ==
    /\ yl.phase = "out" /\ yl.out.raised = "none"
    /\ Len(yl.out.detections) = 3
    /\ yl.out.detections[1].bbox_type = "obb"
    /\ yl.out.detections[1].obb = PolyA
    /\ yl.out.detections[2].bbox_type = "obb"
    /\ yl.out.detections[2].obb = PolyB
    /\ yl.out.detections[3].bbox_type = "xyxy"
    /\ "obb" \notin DOMAIN yl.out.detections[3]

(* the store resolves model_id to a folder that classifies as 'unknown' *)
UnknownFamily(st, model_id) ==
    /\ Resolves(st, model_id)
    /\ determine_model_type(ResolvedFolder(st, model_id)) = "unknown"

(* C20: every cache entry's type is 'yolo', 'yolo-obb' or 'mmrotate' and   *)
(* is the family of the entry's folder; for a model whose folder           *)
(* classifies as 'unknown', load_model returns false without running a     *)
(* loader and predict returns a failure, and neither changes the cache.    *)
C20_UnknownNeverCached ==
    /\ \A i \in 1..Len(loaded_models) :
           /\ loaded_models[i].val.type \in {"yolo", "yolo-obb", "mmrotate"}
           /\ loaded_models[i].val.type
                = determine_model_type(loaded_models[i].val.metadata.folder)
    /\ (last.op = "load_model" /\ UnknownFamily(store, last.id)) =>
           /\ last.raised = "none" /\ last.ret = FALSE
           /\ last.loader_calls = 0
           /\ loaded_models = last.pre
    /\ (last.op = "predict" /\ UnknownFamily(store, last.id)) =>
           /\ last.raised = "none"
           /\ last.result.success = FALSE
           /\ last.executor_calls = 0
           /\ loaded_models = last.pre

(* predict auto-loading a model of unknown family whose checkpoint exists, *)
(* with a good image and another model cached                              *)
C20_Witness ==
    /\ last.op = "predict" /\ last.auto_load /\ last.image = "ok"
    /\ UnknownFamily(store, last.id)
    /\ PathExists(store, ResolvedFolder(store, last.id), "file.pt")
    /\ last.result.error = "Failed to load model"
    /\ Len(loaded_models) = 1

(* the family of the folder the store resolves model_id to is mmrotate and *)
(* the folder holds no config.py                                           *)
ConfigAbsent(st, model_id) ==
    /\ determine_model_type(ResolvedFolder(st, model_id)) = "mmrotate"
    /\ ~PathExists(st, ResolvedFolder(st, model_id), "config.py")

(* C21: a load_model call that resolves the model (the id was not cached)  *)
(* returns false and leaves the cache as it was when the checkpoint file   *)
(* of the resolved folder is absent, and likewise when the family is       *)
(* mmrotate and config.py is absent from the folder.                       *)
C21_MissingFilesFailLoad ==
    ( /\ last.op = "load_model"
      /\ ~DictHas(last.pre, last.id)
      /\ Resolves(store, last.id)
      /\ \/ ~PathExists(store, ResolvedFolder(store, last.id), "file.pt")
         \/ ConfigAbsent(store, last.id) )
    => ( /\ last.raised = "none" /\ last.ret = FALSE
         /\ loaded_models = last.pre )

(* an mmrotate model whose checkpoint exists and whose config.py does not, *)
(* with the backend importable and another model cached                    *)
C21_Witness ==
    /\ last.op = "load_model" /\ ~DictHas(last.pre, last.id)
    /\ Resolves(store, last.id)
    /\ PathExists(store, ResolvedFolder(store, last.id), "file.pt")
    /\ ConfigAbsent(store, last.id)
    /\ last.env.fault = "none" /\ last.loader_calls = 1
    /\ last.ret = FALSE
    /\ Len(last.pre) = 1 /\ loaded_models = last.pre

(* the ids a call loaded: load_model returned True, or predict's           *)
(* load_model did (predict went on to the image checks)                    *)
LoadedBy(call) ==
    IF call.op = "load_model" /\ call.raised = "none" /\ call.ret
    THEN {call.id}
    ELSE IF call.op = "predict" /\ call.load_calls = 1 /\ call.image_checks = 1
         THEN {call.id}
         ELSE {}

(* the ids a call unloaded *)
UnloadedBy(call) ==
    IF call.op = "unload_model" /\ call.ret THEN {call.id}
    ELSE IF call.op = "unload_all_models" THEN ModelIds
    ELSE {}

SeqToSet(s) == { s[i] : i \in 1..Len(s) }

(* C22: after unload_all_models() get_loaded_models() is empty and         *)
(* unload_model(id) returns false for every id; every call leaves          *)
(* get_loaded_models() listing, once each, exactly the ids that were       *)
(* listed before or that the call loaded, less those the call unloaded.    *)
C22_LoadedIds ==
    [][ /\ SeqToSet(get_loaded_models(loaded_models'))
             = (SeqToSet(get_loaded_models(loaded_models)) \cup LoadedBy(last'))
                 \ UnloadedBy(last')
        /\ Len(get_loaded_models(loaded_models'))
             = Cardinality(SeqToSet(get_loaded_models(loaded_models')))
        /\ last'.op = "unload_all_models" =>
             /\ get_loaded_models(loaded_models') = <<>>
             /\ \A id \in ModelIds : ~unload_model(loaded_models', id).ret
        /\ (last.op = "unload_all_models" /\ last'.op = "unload_model")
             => ~last'.ret
      ]_vars

(* unload_all_models() was called with two models cached *)
C22_Witness ==
    /\ last.op = "unload_all_models"
    /\ Len(last.pre) = 2
    /\ get_loaded_models(loaded_models) = <<>>

(* folder i holds a descriptor that is a JSON object whose id is model_id *)
ValidMatch(st, model_id, i) ==
    /\ st.folders[i].is_dir
    /\ st.folders[i].desc.kind = "object"
    /\ st.folders[i].desc.id = model_id

(* C23: when some folder of the store holds a valid descriptor of          *)
(* model_id, the lookup returns the first such descriptor in scan order,   *)
(* with folder and checkpoint path of that folder, whatever malformed or   *)
(* unreadable descriptors the scan met before it.                          *)
C23_FirstValidMatch ==
    last.op = "get_model_metadata" =>
        \A i \in 1..Len(store.folders) :
            ( /\ ValidMatch(store, last.id, i)
              /\ \A j \in 1..(i - 1) : ~ValidMatch(store, last.id, j) )
            => ( /\ last.raised = "none"
                 /\ last.result.kind = "found"
                 /\ last.result.metadata.id = last.id
                 /\ last.result.metadata.name = store.folders[i].desc.name
                 /\ last.result.metadata.folder = store.folders[i].name
                 /\ last.result.metadata.checkpoint_path = store.folders[i].name )

(* the detections an executor run returned, of either family *)
ExecDetections ==
    IF mm.phase = "out" /\ mm.out.raised = "none" THEN mm.out.detections
    ELSE IF yl.phase = "out" /\ yl.out.raised = "none" THEN yl.out.detections
    ELSE <<>>

(* C24: every detection an executor returns that carries an 'obb' field    *)
(* holds, in that field, a list of exactly 8 values.                       *)
C24_ObbEightValues ==
    \A i \in 1..Len(ExecDetections) :
        "obb" \in DOMAIN ExecDetections[i] => Len(ExecDetections[i].obb) = 8

(* the raw scores of the backend's output in an executor run *)
RawScores ==
    IF mm.phase = "out"
    THEN { ScoreOf(InputRows[i].row) : i \in 1..Len(InputRows) }
    ELSE IF yl.phase = "out"
         THEN { BoxAt(yl.backend.yolo, BoxRefs(yl.backend.yolo, 1)[i]).conf :
                  i \in 1..Len(BoxRefs(yl.backend.yolo, 1)) }
         ELSE {}

(* C25: every detection an executor returns has a confidence within [0,1]  *)
(* (0..100 hundredths): it is one of the backend's raw scores, unchanged,  *)
(* whatever the threshold, also a threshold below 0 or above 1.            *)
C25_ConfidenceInRange ==
    \A i \in 1..Len(ExecDetections) :
        /\ ExecDetections[i].confidence \in 0..100
        /\ ExecDetections[i].confidence \in RawScores

(* at a threshold below 0 the rows of score 0 and of score 1 are retained *)
C25_Witness ==
    /\ mm.phase = "out" /\ mm.confidence < 0
    /\ Len(mm.out.detections) = 2
    /\ mm.out.detections[1].confidence = 0
    /\ mm.out.detections[2].confidence = 100

(* C26 as stated: detections with bbox_type 'xyxy' or 'xywh' never have an *)
(* 'angle' field, and every detection with bbox_type 'xywha' or 'obb' has  *)
(* one.                                                                    *)
C26_Original ==
    \A i \in 1..Len(ExecDetections) :
        LET det == ExecDetections[i] IN
        /\ det.bbox_type \in {"xyxy", "xywh"} => "angle" \notin DOMAIN det
        /\ det.bbox_type \in {"xywha", "obb"} => "angle" \in DOMAIN det

(* C26 amended: a detection has an 'angle' field exactly when its          *)
(* bbox_type is 'xywha' (a 6-field MMRotate row); detections with          *)
(* bbox_type 'xyxy' or 'xywh' never have one, and neither do the YOLO      *)
(* detections with bbox_type 'obb', which carry the corner polygon only.   *)
C26_AngleOnlyXywha ==
    \A i \in 1..Len(ExecDetections) :
        LET det == ExecDetections[i] IN
        /\ det.bbox_type \in {"xyxy", "xywh", "xywha", "obb"}
        /\ "angle" \in DOMAIN det <=> det.bbox_type = "xywha"
        /\ det.bbox_type = "obb" => "obb" \in DOMAIN det

(* a YOLO run that emitted an oriented detection and a plain one *)
C26_Witness ==
    /\ yl.phase = "out" /\ yl.out.raised = "none"
    /\ Len(yl.out.detections) = 2
    /\ yl.out.detections[1].bbox_type = "obb"
    /\ "angle" \notin DOMAIN yl.out.detections[1]
    /\ yl.out.detections[2].bbox_type = "xywh"

(* the name the claim gives class_id in a YOLO result *)
YoloNameOrString(names, class_id) ==
    IF class_id \in DOMAIN names THEN names[class_id] ELSE ToString(class_id)

(* the name the claim gives class_id for an mmdet model *)
MMNameOrString(model, class_id) ==
    IF model.CLASSES.has /\ class_id + 1 <= Len(model.CLASSES.names)
    THEN model.CLASSES.names[class_id + 1]
    ELSE ToString(class_id)

(* C27: a predict call whose backend returned its result succeeds, also    *)
(* when the result holds a class_id that the family's class-name table has *)
(* no entry for; each detection's class_name is the table's entry for its  *)
(* class_id when there is one, and the string form of class_id otherwise.  *)
C27_ClassNameFallback ==
    ( /\ last.op = "predict"
      /\ last.executor_calls = 1
      /\ last.backend.raises = "none" )
    => ( /\ last.raised = "none"
         /\ last.result.success
         /\ \A i \in 1..Len(last.result.detections) :
                LET det == last.result.detections[i] IN
                det.class_name
                  = IF last.result.model_type = "mmrotate"
                    THEN MMNameOrString(DictGet(loaded_models, last.id).model,
                                        det.class_id)
                    ELSE YoloNameOrString(YoloNames, det.class_id) )

(* the call unloads id: unload_model(id) or unload_all_models() *)
Unloads(call, id) ==
    \/ call.op = "unload_all_models"
    \/ call.op = "unload_model" /\ call.id = id

(* C28: a successful predict(id, auto_load=True) on an id that was not     *)
(* cached leaves id in get_loaded_models(), so that unload_model(id) would *)
(* return true; a cached id stays cached, with its entry, across every     *)
(* call that is not unload_model(id) or unload_all_models(); a predict on  *)
(* it calls neither load_model nor a loader, and an unload_model(id)       *)
(* returns true.                                                           *)
C28_AutoLoadedStaysCached ==
    [][ /\ ( /\ last'.op = "predict" /\ last'.auto_load
             /\ ~DictHas(loaded_models, last'.id)
             /\ last'.raised = "none" /\ last'.result.success )
           => ( /\ last'.id \in SeqToSet(get_loaded_models(loaded_models'))
                /\ unload_model(loaded_models', last'.id).ret )
        /\ \A id \in ModelIds :
             DictHas(loaded_models, id) =>
               /\ ~Unloads(last', id) =>
                    /\ DictHas(loaded_models', id)
                    /\ DictGet(loaded_models', id) = DictGet(loaded_models, id)
               /\ (last'.op = "predict" /\ last'.id = id) =>
                    /\ last'.load_calls = 0
                    /\ last'.loader_calls = 0
               /\ (last'.op = "unload_model" /\ last'.id = id) => last'.ret
      ]_vars

(* a predict with auto_load succeeded on an id that was not cached, with   *)
(* another model cached                                                    *)
C28_Witness ==
    /\ last.op = "predict" /\ last.auto_load
    /\ ~DictHas(last.pre, last.id) /\ Len(last.pre) = 1
    /\ last.raised = "none" /\ last.result.success
    /\ last.load_calls = 1 /\ last.loader_calls = 1
    /\ get_loaded_models(loaded_models) = <<last.pre[1].key, last.id>>

(* C29: a predict(id, auto_load=True) on an id that is not cached, whose   *)
(* load succeeds (the model resolves, its checkpoint exists, its family is *)
(* supported and the loader does not raise) and whose image is missing or  *)
(* unreadable, returns the image failure without running an executor and   *)
(* leaves id cached, after the entries the cache held; a predict on a      *)
(* cached id leaves the cache as it was, whatever it returns.              *)
C29_LoadBeforeImageCheck ==
    /\ ( /\ last.op = "predict" /\ last.auto_load
         /\ ~DictHas(last.pre, last.id)
         /\ last.image \in {"missing", "corrupt"}
         /\ Resolves(store, last.id)
         /\ PathExists(store, ResolvedFolder(store, last.id), "file.pt")
         /\ SupportedFamily(store, last.id)
         /\ LoaderSucceeds(store, last.id, last.env) )
       => ( /\ last.raised = "none"
            /\ last.result =
                 [success |-> FALSE,
                  error |-> IF last.image = "missing" THEN "Image not found"
                            ELSE "Failed to read image"]
            /\ last.load_calls = 1 /\ last.executor_calls = 0
            /\ Len(loaded_models) = Len(last.pre) + 1
            /\ SubSeq(loaded_models, 1, Len(last.pre)) = last.pre
            /\ loaded_models[Len(loaded_models)].key = last.id )
    /\ (last.op = "predict" /\ DictHas(last.pre, last.id))
       => loaded_models = last.pre

(* the failed call cached the model next to one that was cached before *)
C29_Witness ==
    /\ last.op = "predict" /\ last.auto_load
    /\ ~DictHas(last.pre, last.id) /\ Len(last.pre) = 1
    /\ last.image = "missing"
    /\ last.result = [success |-> FALSE, error |-> "Image not found"]
    /\ get_loaded_models(loaded_models) = <<last.pre[1].key, last.id>>

(* a store without a models directory *)
NoStore == [exists |-> FALSE, folders |-> <<>>]

(* the model of id is gone from the store: no descriptor resolves it, or   *)
(* the checkpoint of the folder it resolves to is absent                   *)
Gone(st, model_id) ==
    \/ ~Resolves(st, model_id)
    \/ ~PathExists(st, ResolvedFolder(st, model_id), "file.pt")

(* C30: in every call (a step that leaves the store alone) on an id that   *)
(* is cached, whatever has become of the store since the load: load_model  *)
(* returns true without running a loader and predict does not load, both   *)
(* leave the cache as it was, predict returns what it would return over an *)
(* empty store, and a success reports the name and the type of the cache   *)
(* entry, which no change of the store alters; a load_model on an id that  *)
(* is not cached and whose model is gone from the store does not return    *)
(* true and caches nothing.                                                *)
C30_CachedIgnoresStore ==
    [][ /\ store' # store => loaded_models' = loaded_models
        /\ (store' = store /\ last'.op = "load_model"
              /\ DictHas(loaded_models, last'.id))
           => ( /\ last'.raised = "none" /\ last'.ret
                /\ last'.loader_calls = 0
                /\ loaded_models' = loaded_models )
        /\ (store' = store /\ last'.op = "predict"
              /\ DictHas(loaded_models, last'.id))
           => ( /\ last'.load_calls = 0 /\ last'.loader_calls = 0
                /\ loaded_models' = loaded_models
                /\ last'.result
                     = predict(loaded_models, NoStore, last'.id, last'.image,
                               last'.conf, last'.auto_load, last'.env,
                               last'.backend, 0).result
                /\ (last'.raised = "none" /\ last'.result.success) =>
                     /\ last'.result.model_name
                          = DictGet(loaded_models, last'.id).metadata.name
                     /\ last'.result.model_type
                          = DictGet(loaded_models, last'.id).type )
        /\ (store' = store /\ last'.op = "load_model"
              /\ ~DictHas(loaded_models, last'.id)
              /\ Gone(store, last'.id))
           => ( /\ ~last'.ret
                /\ loaded_models' = loaded_models )
      ]_vars

(* a predict succeeded on a cached model whose descriptor is no longer in  *)
(* the store                                                               *)
C30_Witness ==
    /\ last.op = "predict" /\ last.auto_load
    /\ DictHas(last.pre, last.id)
    /\ ~Resolves(store, last.id)
    /\ last.raised = "none" /\ last.result.success
    /\ last.result.model_name = "YOLOv8n-COCO"
    /\ last.result.model_type = "yolo"

=============================================================================
